---------------------------- MODULE Spec2Model ----------------------------
(***************************************************************************)
(* Model of the moltworker gateway: the R2 restore (restoreFromR2), the    *)
(* R2 sync (syncToR2), the gateway start (ensureMoltbotGateway and         *)
(* start-openclaw.sh) and the WebSocket bridge of the catch-all proxy.     *)
(*                                                                         *)
(* Files are paths (tuples of components) mapped to a content; a content   *)
(* is a pair <<kind, n>>, the empty tuple standing for "no such file".     *)
(* Every sandbox process the code starts is one action; what the sandbox   *)
(* did with the process (completed, still running at the timeout,          *)
(* canceled, startProcess rejecting) is drawn from ProcOutcomes.           *)
(***************************************************************************)
EXTENDS Integers, Sequences, FiniteSets, TLC

(***************************************************************************)
(* Bounds of the model.                                                    *)
(***************************************************************************)
\* the clock (seconds of `date -Iseconds`) runs from 1 to MaxTime
MaxTime == 2
\* number of writes the backend makes to the local config directory
MaxWrites == 2
\* number of cold starts of the gateway
MaxColdStarts == 3
\* number of runs of the scheduled sync
MaxSyncs == 1
\* number of sandbox processes that do not run to their end, over the life
\* of one sandbox
MaxFaults == 1
\* processes that may go wrong in one run of restoreFromR2 or of syncToR2
MaxRunFaults == 2
\* messages the client sends in one bridge session, and those of them that
\* arrive after the container socket is ready
MaxMsgs == 258
MaxLate == 2
\* concurrent calls of ensureMoltbotGateway
MaxEnsures == 3
\* waitForProcess: the longest timeout and the longest poll interval, in
\* units of time
MaxTimeout == 3
MaxInterval == 2

(***************************************************************************)
(* Paths.                                                                  *)
(***************************************************************************)
BACKUP_DIR == <<"data", "moltbot">>
CONFIG_DIR == <<"root", ".openclaw">>
LEGACY_CONFIG_DIR == <<"root", ".clawdbot">>
CLAWD_DIR == <<"root", "clawd">>
\* R2_CONFIG_DIR of start-openclaw.sh, the openclaw/ prefix of the bucket
OPENCLAW_R2 == BACKUP_DIR \o <<"openclaw">>

\* the files of a config directory the model follows
CfgRel ==
    { <<"openclaw.json">>, <<"clawdbot.json">>, <<".last-sync">>,
      <<".r2-restored">>, <<"workspace", "IDENTITY.md">>,
      <<"workspace", "skills", "SKILL.md">> }

LocalPaths ==
    { CONFIG_DIR \o r : r \in CfgRel }
      \cup { LEGACY_CONFIG_DIR \o <<"clawdbot.json">>,
             CLAWD_DIR \o <<"IDENTITY.md">>,
             CLAWD_DIR \o <<"skills", "SKILL.md">> }

R2Paths ==
    { BACKUP_DIR \o <<"openclaw">> \o r : r \in CfgRel }
      \cup { BACKUP_DIR \o <<"clawdbot", "clawdbot.json">>,
             BACKUP_DIR \o <<"clawdbot.json">>,
             BACKUP_DIR \o <<".last-sync">>,
             BACKUP_DIR \o <<"workspace", "IDENTITY.md">>,
             BACKUP_DIR \o <<"skills", "SKILL.md">> }

Paths == LocalPaths \cup R2Paths

Absent == <<>>
Data(n) == <<"data", n>>
\* a manifest that `date` cannot parse
Junk == <<"junk", 0>>
\* a manifest that `date` cannot parse and that holds one apostrophe
Quoted == <<"quoted", 0>>

(***************************************************************************)
(* Shell commands on the file tree.                                        *)
(***************************************************************************)
Under(p, dir) ==
    /\ Len(p) > Len(dir)
    /\ SubSeq(p, 1, Len(dir)) = dir

Rebase(p, from, to) == to \o SubSeq(p, Len(from) + 1, Len(p))

\* test -f path
TestF(f, p) == p \in DOMAIN f /\ f[p] # Absent

\* test -d dir && ls dir | head -1 : the directory holds something
DirHasEntries(f, dir) == \E p \in DOMAIN f : Under(p, dir) /\ f[p] # Absent

\* cat path 2>/dev/null, then .trim(): the content, empty for no file
Cat(f, p) == IF TestF(f, p) THEN f[p] ELSE Absent

\* the source file that `cp -a from/. to/` writes to p, if any
CpSource(f, from, to, p) ==
    { q \in DOMAIN f : Under(q, from) /\ f[q] # Absent /\ Rebase(q, from, to) = p }

\* cp -a from/. to/ : every file under from overwrites its namesake under to
CpA(f, from, to) ==
    [p \in DOMAIN f |->
        IF CpSource(f, from, to, p) # {}
        THEN f[CHOOSE q \in CpSource(f, from, to, p) : TRUE]
        ELSE f[p]]

CpAN_Clobber(f, from, to) == CpA(f, from, to)

\* cp -a -n from/. to/ : as cp -a, but a file that exists under to is kept
CpAN(f, from, to) ==
    [p \in DOMAIN f |->
        IF f[p] = Absent /\ CpSource(f, from, to, p) # {}
        THEN f[CHOOSE q \in CpSource(f, from, to, p) : TRUE]
        ELSE f[p]]

\* cp -f from to 2>/dev/null || true
CpF(f, from, to) == IF TestF(f, from) THEN [f EXCEPT ![to] = f[from]] ELSE f

\* date -Iseconds at clock t
DateIseconds(t) == <<"date", t>>

\* $(date -d 's' +%s 2>/dev/null || echo 0)
DateEpoch(s) == IF s # Absent /\ s[1] = "date" THEN s[2] ELSE 0

\* s.match(/^\d{4}-\d{2}-\d{2}/)
MatchesDatePrefix(s) == s # Absent /\ s[1] = "date"

(***************************************************************************)
(* Sandbox processes.                                                      *)
(***************************************************************************)
\* what the sandbox does with one startProcess + waitForProcess (+ getLogs):
\*   done        the command ran to its end
\*   failed      the command ended with a non-zero exit code, nothing done
\*   running     still running when the wait timed out
\*   canceled    the process has status canceled
\*   throwCancel the call rejects with a message containing 'canceled'
\*   throwOther  the call rejects with another message
ProcOutcomes == {"done", "failed", "running", "canceled", "throwCancel", "throwOther"}

NoError == <<>>
CanceledMessage == <<"Process", "was", "canceled", "(Durable", "Object", "reset?)">>
RuntimeCanceledMessage == <<"operation", "canceled">>
OtherMessage == <<"s3fs", "error">>

WaitForProcess_NeverRejects(status) == NoError

\* waitForProcess on the status the handle ends the wait with
WaitForProcess(status) ==
    IF status = "canceled" THEN CanceledMessage ELSE NoError

Thrown_Never(o) == NoError

\* the error a `startProcess; waitForProcess; getLogs` sequence throws
Thrown(o) ==
    CASE o = "throwCancel" -> RuntimeCanceledMessage
      [] o = "throwOther" -> OtherMessage
      [] OTHER -> WaitForProcess(o)

\* err.message.includes('canceled')
IncludesCanceled(msg) == \E i \in 1..Len(msg) : msg[i] = "canceled"

Undefined == -1

\* proc.exitCode of a command whose own exit code is ec
ExitCode(o, ec) ==
    CASE o = "done" -> ec
      [] o = "failed" -> 1
      [] OTHER -> Undefined

\* logs.stdout?.trim() of a command that prints out
Stdout(o, out) == IF o = "done" THEN out ELSE Absent

VARIABLES
    fs,          \* the file tree: local files and the mounted bucket
    linked,      \* /root/.openclaw is a symlink to the bucket's openclaw/
    now,         \* the clock, in seconds
    writes,      \* number of backend writes so far
    starts,      \* number of cold starts so far
    syncs,       \* number of scheduled syncs so far
    faultsLeft,  \* processes that may still go wrong
    gateway,     \* "down" | "up": is a backend gateway process running
    rpc,         \* restoreFromR2: the step it is at
    backupConfigDir, needsMigration, legacyMigrated,
    localTime, r2Time,       \* shouldRestore's locals
    rres,        \* the RestoreResult returned
    rOps,        \* the processes this run of restoreFromR2 has started
    rCanceledAt, \* the steps of this run that surfaced a canceled condition
    outcome,     \* what the sandbox did with the last process
    spc,         \* syncToR2: the step it is at
    configDir,   \* syncToR2's source directory
    sres,        \* the SyncResult returned
    sOps,        \* the processes this run of syncToR2 has started
    cron,        \* the scheduled handler: where it is, its syncToR2 calls, its log
    hpc,         \* the upgrade handler: the step it is at
    serverWs,    \* readyState of the inbound socket: "NEW" | "OPEN" | "CLOSED"
    closedBy,    \* who closed the inbound socket
    bg,          \* the background task: the await it is at, or how it ended
    bgError,     \* what the background task caught
    containerWs, \* "null", or the readyState of the container socket
    containerReady,
    pendingToContainer,
    sent,        \* the messages sent to the container socket, in order
    received,    \* number of messages the client has sent; message i is i
    late,        \* those of them that arrived after containerReady
    dropped,     \* those of them that were neither sent nor buffered
    host,        \* url.host of the upgrade request (its length)
    serverClose,        \* code and reason serverWs ended with
    containerClose,     \* code and reason containerWs ended with
    containerClosedBy,  \* who closed the container socket
    containerData,      \* event.data of the last message of the container
    clientData,         \* what serverWs.send was given for it
    ens,         \* each ensureMoltbotGateway call: the step it is at
    scr,         \* the startup script each call spawned: the step it is at
    locks,       \* the lock files that exist in the container
    proxy,       \* the catch-all route's request: its step and its response
    guard,       \* the pgrep guard of one run of the startup script, probe by probe
    wpc,         \* waitForProcess: "idle" | "polling" | "resolved" | "rejected"
    wStatus,     \* the status of the handle it waits on
    wElapsed,    \* time it has slept so far
    wTimeout, wInterval,     \* its timeoutMs and pollIntervalMs
    wError,      \* the message of the error it rejected with
    env,         \* the worker's environment: the R2 credentials that are set
    mounted      \* what mountR2Storage returned to this run of syncToR2

restoreVars ==
    <<rpc, backupConfigDir, needsMigration, legacyMigrated, localTime, r2Time,
      rres, rOps, rCanceledAt>>

syncVars == <<spc, configDir, sres, sOps, cron>>

counters == <<now, writes, starts, syncs>>

storageVars == <<fs, linked, counters, faultsLeft, outcome, gateway, restoreVars, syncVars>>

bridgeVars ==
    <<hpc, serverWs, closedBy, bg, bgError, containerWs, containerReady,
      pendingToContainer, sent, received, late, dropped,
      host, serverClose, containerClose, containerClosedBy,
      containerData, clientData>>

\* the last message of the container and what the client was sent for it
relayVars == <<containerData, clientData>>

\* what the bridge knows of how its two sockets ended
closeVars == <<host, serverClose, containerClose, containerClosedBy>>

\* the lock files, the catch-all route's request, the guard of one script run
startVars == <<locks, proxy, guard>>

gatewayVars == <<ens, scr, startVars>>

pollVars == <<wpc, wStatus, wElapsed, wTimeout, wInterval, wError>>

envVars == <<env, mounted>>

vars == <<storageVars, bridgeVars, gatewayVars, pollVars, envVars>>

NoDir == <<>>
NoResult == [restored |-> FALSE, details |-> "", legacyMigrated |-> FALSE]
Result(r, d, m) == [restored |-> r, details |-> d, legacyMigrated |-> m]

\* the file a path leads to
Resolve(p) ==
    IF linked /\ Under(p, CONFIG_DIR) THEN Rebase(p, CONFIG_DIR, OPENCLAW_R2) ELSE p

\* the file tree as commands see it through their paths
View == [p \in Paths |-> fs[Resolve(p)]]

\* the file tree after a command has turned the tree it saw into v
Store(v) ==
    [r \in Paths |->
        LET changed == {p \in Paths : Resolve(p) = r /\ v[p] # View[p]}
        IN  IF changed = {} THEN fs[r] ELSE v[CHOOSE p \in changed : TRUE]]

SurfacesCanceled(o) == o \in {"canceled", "throwCancel"}

LAST_SYNC_R2 == BACKUP_DIR \o <<".last-sync">>
LAST_SYNC_LOCAL == CONFIG_DIR \o <<".last-sync">>
OPENCLAW_JSON == CONFIG_DIR \o <<"openclaw.json">>
CLAWDBOT_JSON == CONFIG_DIR \o <<"clawdbot.json">>
RESTORE_MARKER == CONFIG_DIR \o <<".r2-restored">>

(***************************************************************************)
(* restoreFromR2                                                           *)
(***************************************************************************)
ProbeCatch_Ignore(err) == "ignore"

\* the catch block of a layout probe: abort on a canceled error, else go on
ProbeCatch(err) == IF IncludesCanceled(err) THEN "abort" ELSE "ignore"

RFinish(res) ==
    /\ rpc' = "done"
    /\ rres' = res

\* the sandbox lets a process go wrong while the budget lasts
Sandbox(o) ==
    /\ o = "done" \/ faultsLeft # 0
    /\ faultsLeft' = IF o # "done" /\ faultsLeft > 0 THEN faultsLeft - 1 ELSE faultsLeft
    /\ outcome' = o
    /\ UNCHANGED <<bridgeVars, gatewayVars, pollVars, envVars>>

RStarts(step, o) ==
    /\ rpc = step
    /\ Sandbox(o)
    /\ rOps' = rOps \cup {step}
    /\ rCanceledAt' = IF SurfacesCanceled(o) THEN rCanceledAt \cup {step} ELSE rCanceledAt

\* one layout probe: test -f <file>; found selects dir and goes to shouldRestore
RProbe(step, file, dir, mig, next, o) ==
    /\ RStarts(step, o)
    /\ IF Thrown(o) # NoError
       THEN /\ UNCHANGED <<backupConfigDir, needsMigration>>
            /\ IF ProbeCatch(Thrown(o)) = "abort"
               THEN RFinish(Result(FALSE, "DO reset during restore", FALSE))
               ELSE rpc' = next /\ UNCHANGED rres
       ELSE IF ExitCode(o, IF TestF(View, file) THEN 0 ELSE 1) = 0
            THEN /\ backupConfigDir' = dir
                 /\ needsMigration' = mig
                 /\ rpc' = "catLocal"
                 /\ UNCHANGED rres
            ELSE /\ rpc' = next
                 /\ UNCHANGED <<backupConfigDir, needsMigration, rres>>
    /\ UNCHANGED <<syncVars, fs, counters, linked, gateway, legacyMigrated, localTime, r2Time>>

RProbeNew(o) ==
    RProbe("probeNew", BACKUP_DIR \o <<"openclaw", "openclaw.json">>,
           BACKUP_DIR \o <<"openclaw">>, FALSE, "probeLegacy", o)

RProbeLegacy(o) ==
    RProbe("probeLegacy", BACKUP_DIR \o <<"clawdbot", "clawdbot.json">>,
           BACKUP_DIR \o <<"clawdbot">>, TRUE, "probeFlat", o)

RProbeFlat(o) ==
    RProbe("probeFlat", BACKUP_DIR \o <<"clawdbot.json">>,
           BACKUP_DIR, TRUE, "diag", o)

RDiag_Rethrow(o) ==
    /\ RStarts("diag", o)
    /\ IF Thrown(o) # NoError
       THEN RFinish(Result(FALSE, "DO reset during restore", FALSE))
       ELSE RFinish(Result(FALSE, "No backup data found", FALSE))
    /\ UNCHANGED <<syncVars, fs, counters, linked, gateway, backupConfigDir, needsMigration,
                   legacyMigrated, localTime, r2Time>>

\* no layout found: the diagnostic listing, then 'No backup data found'
RDiag(o) ==
    /\ RStarts("diag", o)
    /\ RFinish(Result(FALSE, "No backup data found", FALSE))
    /\ UNCHANGED <<syncVars, fs, counters, linked, gateway, backupConfigDir, needsMigration,
                   legacyMigrated, localTime, r2Time>>

\* shouldRestore's catch block: restore as a fallback
ShouldRestoreCatch(err) == TRUE

SrAfterReads_RemoteFirst(lt, rt) ==
    IF rt = Absent THEN "skip"
    ELSE IF lt = Absent THEN "restore"
    ELSE "compare"

\* shouldRestore once both manifests are read
SrAfterReads(lt, rt) ==
    IF lt = Absent THEN "restore"
    ELSE IF rt = Absent THEN "skip"
    ELSE "compare"

\* test "$(date -d r2Time +%s || echo 0)" -gt "$(date -d localTime +%s || echo 0)"
CompareTest(rt, lt) == DateEpoch(rt) > DateEpoch(lt)

\* the exit code of the command line built from the two texts: each text is
\* pasted between apostrophes, so one apostrophe in the texts leaves a quote
\* open (the shell ends with a syntax error, code 2), and one in each makes
\* `test` see a single non-empty word (code 0)
CompareExit(rt, lt) ==
    LET quotes == Cardinality({s \in {<<"r2", rt>>, <<"local", lt>>} : s[2] = Quoted})
    IN  CASE quotes = 0 -> IF CompareTest(rt, lt) THEN 0 ELSE 1
          [] quotes = 1 -> 2
          [] OTHER -> 0

\* restoreFromR2 on shouldRestore's answer
ROnShouldRestore(answer) ==
    IF answer
    THEN rpc' = "copy" /\ UNCHANGED rres
    ELSE RFinish(Result(FALSE, "Local data is newer or same", FALSE))

RCatLocal(o) ==
    /\ RStarts("catLocal", o)
    /\ IF Thrown(o) # NoError
       THEN /\ ROnShouldRestore(ShouldRestoreCatch(Thrown(o)))
            /\ UNCHANGED localTime
       ELSE /\ localTime' = Stdout(o, Cat(View, LAST_SYNC_LOCAL))
            /\ rpc' = "catR2"
            /\ UNCHANGED rres
    /\ UNCHANGED <<syncVars, fs, counters, linked, gateway, backupConfigDir, needsMigration,
                   legacyMigrated, r2Time>>

RCatR2(o) ==
    /\ RStarts("catR2", o)
    /\ IF Thrown(o) # NoError
       THEN /\ ROnShouldRestore(ShouldRestoreCatch(Thrown(o)))
            /\ UNCHANGED r2Time
       ELSE /\ r2Time' = Stdout(o, Cat(View, LAST_SYNC_R2))
            /\ IF SrAfterReads(localTime, r2Time') = "compare"
               THEN rpc' = "compare" /\ UNCHANGED rres
               ELSE ROnShouldRestore(SrAfterReads(localTime, r2Time') = "restore")
    /\ UNCHANGED <<syncVars, fs, counters, linked, gateway, backupConfigDir, needsMigration,
                   legacyMigrated, localTime>>

RCompare(o) ==
    /\ RStarts("compare", o)
    /\ IF Thrown(o) # NoError
       THEN ROnShouldRestore(ShouldRestoreCatch(Thrown(o)))
       ELSE ROnShouldRestore(
                ExitCode(o, CompareExit(r2Time, localTime)) = 0)
    /\ UNCHANGED <<syncVars, fs, counters, linked, gateway, backupConfigDir, needsMigration,
                   legacyMigrated, localTime, r2Time>>

\* cp -a dir/. CONFIG_DIR/ ends non-zero when CONFIG_DIR leads into dir
CopiesIntoItself(dir) == linked /\ dir \in {OPENCLAW_R2, BACKUP_DIR}

\* mkdir -p CONFIG_DIR && cp -a dir/. CONFIG_DIR/ && cp -f .last-sync ... || true
RestoreCmd(f, dir) ==
    IF CopiesIntoItself(dir)
    THEN CpA(f, dir, CONFIG_DIR)
    ELSE CpF(CpA(f, dir, CONFIG_DIR), LAST_SYNC_R2, LAST_SYNC_LOCAL)

RenameCmd_Clobber(f) ==
    IF TestF(f, CLAWDBOT_JSON)
    THEN [f EXCEPT ![OPENCLAW_JSON] = f[CLAWDBOT_JSON], ![CLAWDBOT_JSON] = Absent]
    ELSE f

\* test -f clawdbot.json && ! test -f openclaw.json && mv clawdbot.json openclaw.json
RenameCmd(f) ==
    IF TestF(f, CLAWDBOT_JSON) /\ ~TestF(f, OPENCLAW_JSON)
    THEN [f EXCEPT ![OPENCLAW_JSON] = f[CLAWDBOT_JSON], ![CLAWDBOT_JSON] = Absent]
    ELSE f

\* what a command that changes files has done when the wait ends
Effect(o, f, g) == IF o = "done" THEN g ELSE f

RCopy_Uncaught(o) ==
    /\ RStarts("copy", o)
    /\ IF Thrown(o) # NoError
       THEN /\ rpc' = "rejected"
            /\ UNCHANGED <<fs, rres>>
       ELSE /\ fs' = Effect(o, fs, Store(RestoreCmd(View, backupConfigDir)))
            /\ rpc' = IF needsMigration THEN "rename" ELSE "marker"
            /\ UNCHANGED rres
    /\ UNCHANGED <<syncVars, counters, linked, gateway, backupConfigDir, needsMigration,
                   legacyMigrated, localTime, r2Time>>

RCopy(o) ==
    /\ RStarts("copy", o)
    /\ IF Thrown(o) # NoError
       THEN /\ RFinish(Result(FALSE, "Config restore failed", FALSE))
            /\ UNCHANGED fs
       ELSE /\ fs' = Effect(o, fs, Store(RestoreCmd(View, backupConfigDir)))
            /\ rpc' = IF needsMigration THEN "rename" ELSE "marker"
            /\ UNCHANGED rres
    /\ UNCHANGED <<syncVars, counters, linked, gateway, backupConfigDir, needsMigration,
                   legacyMigrated, localTime, r2Time>>

RRename(o) ==
    /\ RStarts("rename", o)
    /\ IF Thrown(o) # NoError
       THEN /\ RFinish(Result(FALSE, "Config restore failed", FALSE))
            /\ UNCHANGED fs
       ELSE /\ fs' = Effect(o, fs, Store(RenameCmd(View)))
            /\ rpc' = "marker"
            /\ UNCHANGED rres
    /\ UNCHANGED <<syncVars, counters, linked, gateway, backupConfigDir, needsMigration,
                   legacyMigrated, localTime, r2Time>>

\* date -Iseconds > CONFIG_DIR/.r2-restored ; a failure is not fatal
RMarker(o) ==
    /\ RStarts("marker", o)
    /\ fs' = Effect(o, fs, Store([View EXCEPT ![RESTORE_MARKER] = DateIseconds(now)]))
    /\ rpc' = "wsCheck"
    /\ UNCHANGED <<syncVars, counters, linked, gateway, backupConfigDir, needsMigration,
                   legacyMigrated, localTime, r2Time, rres>>

\* the check of migrateLegacyWorkspace / migrateLegacySkills:
\* test -d dir && ls dir | head -1 exits 0 and prints a name
LegacyCheckFinds(o, dir) ==
    /\ Thrown(o) = NoError
    /\ ExitCode(o, IF DirHasEntries(View, dir) THEN 0 ELSE 1) = 0
    /\ Stdout(o, IF DirHasEntries(View, dir) THEN <<"name", 0>> ELSE Absent) # Absent

RWsCheck(o) ==
    /\ RStarts("wsCheck", o)
    /\ rpc' = IF LegacyCheckFinds(o, BACKUP_DIR \o <<"workspace">>)
              THEN "wsMerge" ELSE "skCheck"
    /\ UNCHANGED <<syncVars, fs, counters, linked, gateway, backupConfigDir, needsMigration,
                   legacyMigrated, localTime, r2Time, rres>>

RWsMerge(o) ==
    /\ RStarts("wsMerge", o)
    /\ IF Thrown(o) # NoError
       THEN UNCHANGED <<fs, legacyMigrated>>
       ELSE /\ fs' = Effect(o, fs, Store(CpAN(View, BACKUP_DIR \o <<"workspace">>,
                                              CONFIG_DIR \o <<"workspace">>)))
            /\ legacyMigrated' = TRUE
    /\ rpc' = "skCheck"
    /\ UNCHANGED <<syncVars, counters, linked, gateway, backupConfigDir, needsMigration,
                   localTime, r2Time, rres>>

RSkCheck(o) ==
    /\ RStarts("skCheck", o)
    /\ rpc' = IF LegacyCheckFinds(o, BACKUP_DIR \o <<"skills">>)
              THEN "skMerge" ELSE "validate"
    /\ UNCHANGED <<syncVars, fs, counters, linked, gateway, backupConfigDir, needsMigration,
                   legacyMigrated, localTime, r2Time, rres>>

RSkMerge(o) ==
    /\ RStarts("skMerge", o)
    /\ IF Thrown(o) # NoError
       THEN UNCHANGED fs
       ELSE fs' = Effect(o, fs, Store(CpAN(View, BACKUP_DIR \o <<"skills">>,
                                           CONFIG_DIR \o <<"workspace", "skills">>)))
    /\ rpc' = "validate"
    /\ UNCHANGED <<syncVars, counters, linked, gateway, backupConfigDir, needsMigration,
                   legacyMigrated, localTime, r2Time, rres>>

RValidate_Fatal(o) ==
    /\ RStarts("validate", o)
    /\ IF Thrown(o) # NoError
       THEN RFinish(Result(FALSE, "Config restore failed", FALSE))
       ELSE RFinish(Result(TRUE, "Restored from", legacyMigrated))
    /\ UNCHANGED <<syncVars, fs, counters, linked, gateway, backupConfigDir, needsMigration,
                   legacyMigrated, localTime, r2Time>>

\* validateRestore only logs; then the result is built
RValidate(o) ==
    /\ RStarts("validate", o)
    /\ RFinish(Result(TRUE, "Restored from", legacyMigrated))
    /\ UNCHANGED <<syncVars, fs, counters, linked, gateway, backupConfigDir, needsMigration,
                   legacyMigrated, localTime, r2Time>>

\* the step restoreFromR2 takes when its pending process ends as o
RestoreOn(o) ==
    \/ RProbeNew(o) \/ RProbeLegacy(o) \/ RProbeFlat(o) \/ RDiag(o)
    \/ RCatLocal(o) \/ RCatR2(o) \/ RCompare(o)
    \/ RCopy(o) \/ RRename(o) \/ RMarker(o)
    \/ RWsCheck(o) \/ RWsMerge(o) \/ RSkCheck(o) \/ RSkMerge(o)
    \/ RValidate(o)

RestoreStep == \E o \in ProcOutcomes : RestoreOn(o)


(***************************************************************************)
(* syncToR2                                                                *)
(***************************************************************************)
NoSync == [success |-> FALSE, error |-> "", lastSync |-> Absent, listing |-> FALSE]
SyncFailure(e) == [success |-> FALSE, error |-> e, lastSync |-> Absent, listing |-> FALSE]
SyncAborted ==
    [success |-> FALSE, error |-> "Sync aborted: no config file found",
     lastSync |-> Absent, listing |-> TRUE]
SyncSuccess(t) == [success |-> TRUE, error |-> "", lastSync |-> t, listing |-> FALSE]

SFinish(res) ==
    /\ spc' = "done"
    /\ sres' = res

SStarts(step, o) ==
    /\ spc = step
    /\ Sandbox(o)
    /\ sOps' = sOps \cup {step}
    /\ UNCHANGED cron

\* ls openclaw.json && echo FOUND_OPENCLAW || (ls clawdbot.json && echo
\* FOUND_CLAWDBOT || echo FOUND_NONE)
SourceCheckOutput(f) ==
    IF TestF(f, OPENCLAW_JSON) THEN "FOUND_OPENCLAW"
    ELSE IF TestF(f, LEGACY_CONFIG_DIR \o <<"clawdbot.json">>) THEN "FOUND_CLAWDBOT"
    ELSE "FOUND_NONE"

\* checkLogs.stdout || ''
CheckStdout(o, f) == IF o = "done" THEN SourceCheckOutput(f) ELSE ""

SourceBranch_Default(out) ==
    IF out = "FOUND_CLAWDBOT" THEN LEGACY_CONFIG_DIR ELSE CONFIG_DIR

\* the branch syncToR2 takes on the check's output
SourceBranch(out) ==
    IF out = "FOUND_OPENCLAW" THEN CONFIG_DIR
    ELSE IF out = "FOUND_CLAWDBOT" THEN LEGACY_CONFIG_DIR
    ELSE NoDir

Credentials == {"R2_ACCESS_KEY_ID", "R2_SECRET_ACCESS_KEY", "CF_ACCOUNT_ID"}

R2Configured_TwoKeys(e) == "R2_ACCESS_KEY_ID" \in e /\ "R2_SECRET_ACCESS_KEY" \in e

\* env.R2_ACCESS_KEY_ID && env.R2_SECRET_ACCESS_KEY && env.CF_ACCOUNT_ID
R2Configured(e) ==
    "R2_ACCESS_KEY_ID" \in e /\ "R2_SECRET_ACCESS_KEY" \in e /\ "CF_ACCOUNT_ID" \in e

\* a run of the scheduled handler: where it is, how often it has called
\* syncToR2, and what it has logged
Cron(pc, calls, logged) == [pc |-> pc, calls |-> calls, logged |-> logged]

FoundProcess_Always(g) == TRUE

\* findExistingMoltbotProcess(sandbox) returns a process
FoundProcess(g) == g = "up"

\* the scheduled handler finds no gateway process: it logs and returns
ScheduledSkip ==
    /\ spc = "idle"
    /\ cron.pc # "sync"
    /\ ~FoundProcess(gateway)
    /\ cron' = Cron("returned", 0, "skipping sync")
    /\ UNCHANGED <<spc, configDir, sres, sOps>>
    /\ UNCHANGED <<fs, counters, faultsLeft, outcome, linked, gateway, restoreVars>>
    /\ UNCHANGED <<bridgeVars, gatewayVars, pollVars, envVars>>

\* the scheduled handler finds a gateway process and calls syncToR2, which
\* runs up to the source check: credentials, then the mount
SyncStart(configured, mountOk) ==
    /\ spc = "idle"
    /\ cron.pc # "sync"
    /\ FoundProcess(gateway)
    /\ cron' = Cron("sync", 1, "none")
    /\ syncs < MaxSyncs
    /\ syncs' = syncs + 1
    /\ sOps' = {}
    /\ configDir' = CONFIG_DIR
    /\ IF ~configured
       THEN /\ SFinish(SyncFailure("R2 storage is not configured"))
            /\ mounted' = "not called"
       ELSE /\ mounted' = IF mountOk THEN "true" ELSE "false"
            /\ IF ~mountOk
               THEN SFinish(SyncFailure("Failed to mount R2 storage"))
               ELSE spc' = "check" /\ sres' = NoSync
    /\ UNCHANGED <<fs, now, writes, starts, faultsLeft, outcome, linked, gateway, restoreVars>>
    /\ UNCHANGED <<bridgeVars, gatewayVars, pollVars, env>>

SCheck(o) ==
    /\ SStarts("check", o)
    /\ IF Thrown(o) # NoError
       THEN /\ SFinish(SyncFailure("Failed to verify source files"))
            /\ UNCHANGED configDir
       ELSE IF SourceBranch(CheckStdout(o, View)) # NoDir
            THEN /\ configDir' = SourceBranch(CheckStdout(o, View))
                 /\ spc' = "rsync"
                 /\ UNCHANGED sres
            ELSE /\ spc' = "listing"
                 /\ UNCHANGED <<configDir, sres>>
    /\ UNCHANGED <<fs, counters, linked, gateway, restoreVars>>

SListing(o) ==
    /\ SStarts("listing", o)
    /\ IF Thrown(o) # NoError
       THEN SFinish(SyncFailure("Failed to verify source files"))
       ELSE SFinish(SyncAborted)
    /\ UNCHANGED <<fs, counters, linked, gateway, restoreVars, configDir>>

\* rsync -r --no-times --delete from/ to/ : to becomes a mirror of from
Rsync(f, from, to) ==
    [p \in DOMAIN f |->
        IF Under(p, to)
        THEN IF Rebase(p, to, from) \in DOMAIN f THEN f[Rebase(p, to, from)] ELSE Absent
        ELSE f[p]]

\* rsync --exclude=name: a path with a component name is left alone
RsyncExcluding(f, from, to, name) ==
    [p \in DOMAIN f |->
        IF \E i \in 1..Len(p) : i > Len(to) /\ p[i] = name
        THEN f[p]
        ELSE Rsync(f, from, to)[p]]

SyncStage_ManifestFirst(f, dir, t, k) ==
    CASE k = 1 -> [f EXCEPT ![LAST_SYNC_R2] = DateIseconds(t)]
      [] k = 2 -> Rsync(f, dir, BACKUP_DIR \o <<"openclaw">>)
      [] k = 3 -> RsyncExcluding(f, CLAWD_DIR, BACKUP_DIR \o <<"workspace">>, "skills")
      [] k = 4 -> Rsync(f, CLAWD_DIR \o <<"skills">>, BACKUP_DIR \o <<"skills">>)

\* the four stages of syncCmd, joined by &&
SyncStage(f, dir, t, k) ==
    CASE k = 1 -> Rsync(f, dir, BACKUP_DIR \o <<"openclaw">>)
      [] k = 2 -> RsyncExcluding(f, CLAWD_DIR, BACKUP_DIR \o <<"workspace">>, "skills")
      [] k = 3 -> Rsync(f, CLAWD_DIR \o <<"skills">>, BACKUP_DIR \o <<"skills">>)
      [] k = 4 -> [f EXCEPT ![LAST_SYNC_R2] = DateIseconds(t)]

RECURSIVE SyncCmd(_, _, _, _)
\* the file tree after the first k stages of syncCmd
SyncCmd(f, dir, t, k) ==
    IF k = 0 THEN f ELSE SyncStage(SyncCmd(f, dir, t, k - 1), dir, t, k)

SyncStages == 4

\* the stages syncCmd has completed when the wait ends
StagesDone(o) ==
    CASE o = "done" -> {SyncStages}
      [] o \in {"failed", "running"} -> 0..(SyncStages - 1)
      [] OTHER -> {0}

SRsync(o, k) ==
    /\ SStarts("rsync", o)
    /\ k \in StagesDone(o)
    /\ fs' = Store(SyncCmd(View, configDir, now, k))
    /\ IF Thrown(o) # NoError
       THEN SFinish(SyncFailure("Sync error"))
       ELSE spc' = "readback" /\ UNCHANGED sres
    /\ UNCHANGED <<counters, linked, gateway, restoreVars, configDir>>

ReadbackOk_NonEmpty(lastSync) == lastSync # Absent

\* lastSync && lastSync.match(/^\d{4}-\d{2}-\d{2}/)
ReadbackOk(lastSync) == lastSync # Absent /\ MatchesDatePrefix(lastSync)

SReadback(o) ==
    /\ SStarts("readback", o)
    /\ IF Thrown(o) # NoError
       THEN SFinish(SyncFailure("Sync error"))
       ELSE IF ReadbackOk(Stdout(o, Cat(View, LAST_SYNC_R2)))
            THEN SFinish(SyncSuccess(Stdout(o, Cat(View, LAST_SYNC_R2))))
            ELSE SFinish(SyncFailure("Sync failed"))
    /\ UNCHANGED <<fs, counters, linked, gateway, restoreVars, configDir>>

\* the scheduled handler has logged the result
SyncReturn ==
    /\ spc = "done"
    /\ spc' = "idle"
    /\ configDir' = CONFIG_DIR
    /\ sres' = NoSync
    /\ sOps' = {}
    /\ mounted' = "not called"
    /\ cron' = Cron("returned", cron.calls,
                    IF sres.success THEN "completed successfully" ELSE "failed")
    /\ UNCHANGED <<fs, counters, faultsLeft, outcome, linked, gateway, restoreVars>>
    /\ UNCHANGED <<bridgeVars, gatewayVars, pollVars, env>>

\* the step syncToR2 takes when its pending process ends as o
SyncOn(o) ==
    \/ SCheck(o) \/ SListing(o) \/ SReadback(o)
    \/ \E k \in 0..SyncStages : SRsync(o, k)

SyncStep ==
    \/ ScheduledSkip
    \/ \E m \in BOOLEAN : SyncStart(R2Configured(env), m)
    \/ \E o \in ProcOutcomes : SyncOn(o)
    \/ SyncReturn

(***************************************************************************)
(* The WebSocket bridge of one upgrade request (src/index.ts).             *)
(***************************************************************************)
\* pendingToContainer.length < 256
PendingCap == 256
\* the longest close reason a WebSocket takes, and what is kept of a longer one
ReasonLimit == 123
ReasonKeep == 120

\* a text, as far as the bridge looks at it: what it includes and its length
Text(k, n) == [kind |-> k, len |-> n]
HostLens == {9, 60}
TokenNoticeLen == 72
PairingNoticeLen == 40

\* transformErrorMessage(message, host)
transformErrorMessage(message, hostLen) ==
    IF message.kind = "token" THEN Text("tokenNotice", TokenNoticeLen + hostLen)
    ELSE IF message.kind = "pairing" THEN Text("pairingNotice", PairingNoticeLen + hostLen)
    ELSE message

Truncate_KeepLimit(reason) ==
    IF reason.len > ReasonLimit THEN Text(reason.kind, ReasonLimit + 3) ELSE reason

\* if (reason.length > 123) reason = reason.slice(0, 120) + '...'
Truncate(reason) ==
    IF reason.len > ReasonLimit THEN Text(reason.kind, ReasonKeep + 3) ELSE reason

\* WebSocket.close(code, reason) throws when the reason is longer than the limit
CloseThrows(reason) == reason.len > ReasonLimit

\* what the background task can be thrown: an Error with a message, or not an Error
NotAnError == [isError |-> FALSE, message |-> Text("other", 0)]
AnError(n) == [isError |-> TRUE, message |-> Text("other", n)]
Throwables == {NotAnError} \cup {AnError(n) : n \in {18, 123, 124}}

\* err instanceof Error ? err.message : 'Bridge failed'
CatchReason(err) == IF err.isError THEN err.message ELSE Text("other", 13)

NoThrow == [isError |-> FALSE, message |-> Text("none", 0)]

\* a message of the container: a binary one, or a string; a string may be
\* JSON text, whose error.message is msg (kind "none": there is none; length
\* 0: the empty string; kind "nonString": a truthy value that is no string)
\* and whose text is in one of three forms: "canonical" (what JSON.stringify
\* writes), "spaced" (the same value, written otherwise), "lossy" (a number
\* in it is no double, so JSON.parse rounds it) or "rounded" (what
\* JSON.stringify writes for a lossy text once parsed)
Payload(type, json, msg, form) == [type |-> type, json |-> json, msg |-> msg, form |-> form]
NoData == Payload("none", FALSE, Text("none", 0), "canonical")

\* JSON.stringify(parsed), after parsed = JSON.parse(data)
Stringify(parsed) ==
    [parsed EXCEPT !.form = IF parsed.form = "lossy" THEN "rounded" ELSE "canonical"]

\* parsed.error?.message is truthy
HasErrorMessage(data) == data.msg.kind # "none" /\ data.msg.len > 0

\* the message listener of containerWs: what serverWs.send is given for data
Relay(data, hostLen) ==
    IF data.type # "string" \/ ~data.json THEN data
    ELSE IF ~HasErrorMessage(data) THEN data
    ELSE IF data.msg.kind = "nonString" THEN data
    ELSE Stringify([data EXCEPT !.msg = transformErrorMessage(data.msg, hostLen)])

\* the arguments of a close call, or the code and reason of a close event
Close(code, reason) == [code |-> code, reason |-> reason]
NoClose == Close(0, Text("none", 0))

BridgeIdle ==
    /\ hpc = "upgrade"
    /\ serverWs = "NEW"
    /\ closedBy = "nobody"
    /\ bg = "none"
    /\ bgError = NoThrow
    /\ containerWs = "null"
    /\ containerReady = FALSE
    /\ pendingToContainer = <<>>
    /\ sent = <<>>
    /\ received = 0
    /\ late = 0
    /\ dropped = 0
    /\ serverClose = NoClose
    /\ containerClose = NoClose
    /\ containerClosedBy = "nobody"
    /\ containerData = NoData
    /\ clientData = NoData

Awaited_Await == TRUE

\* c.executionCtx.waitUntil(...): the handler does not await the background task
Awaited == FALSE

\* serverWs.accept()
HAccept ==
    /\ hpc = "upgrade"
    /\ hpc' = "accepted"
    /\ serverWs' = "OPEN"
    /\ UNCHANGED <<closedBy, bg, bgError, containerWs, containerReady,
                   pendingToContainer, sent, received, late, dropped>>
    /\ UNCHANGED <<closeVars, relayVars, storageVars, gatewayVars, pollVars, envVars>>

\* the listeners are registered and the background task runs to its first await
HWaitUntil ==
    /\ hpc = "accepted"
    /\ hpc' = "background"
    /\ bg' = "ensure"
    /\ UNCHANGED <<serverWs, closedBy, bgError, containerWs, containerReady,
                   pendingToContainer, sent, received, late, dropped>>
    /\ UNCHANGED <<closeVars, relayVars, storageVars, gatewayVars, pollVars, envVars>>

\* return new Response(null, {status: 101, webSocket: clientWs})
HRespond ==
    /\ hpc = "background"
    /\ Awaited => bg \in {"bridged", "failed"}
    /\ hpc' = "returned"
    /\ UNCHANGED <<serverWs, closedBy, bg, bgError, containerWs, containerReady,
                   pendingToContainer, sent, received, late, dropped>>
    /\ UNCHANGED <<closeVars, relayVars, storageVars, gatewayVars, pollVars, envVars>>

\* events are delivered once the handler's synchronous code has run
HandlerYielded == hpc = "returned" \/ (hpc = "background" /\ Awaited)

\* serverWs.close(code, reason) inside try { } catch { ignore }
TryClose(code, reason) ==
    IF serverWs = "OPEN" /\ ~CloseThrows(reason)
    THEN serverWs' = "CLOSED" /\ closedBy' = "bridge" /\ serverClose' = Close(code, reason)
    ELSE UNCHANGED <<serverWs, closedBy, serverClose>>

\* the catch block of the background task
BgCatch(err) ==
    /\ bg' = "failed"
    /\ bgError' = err
    /\ TryClose(1011, CatchReason(err))

\* await ensureMoltbotGateway(sandbox, env) settles
BgEnsure(ok, err) ==
    /\ HandlerYielded
    /\ bg = "ensure"
    /\ IF ok
       THEN bg' = "connect" /\ UNCHANGED <<serverWs, closedBy, serverClose, bgError>>
       ELSE BgCatch(err)
    /\ UNCHANGED <<hpc, containerWs, containerReady, pendingToContainer, sent,
                   received, late, dropped, host, containerClose, containerClosedBy>>
    /\ UNCHANGED <<relayVars, storageVars, gatewayVars, pollVars, envVars>>

FlushPending_Keep(cw, pending, out) ==
    IF cw # "OPEN" THEN <<pending, out>> ELSE <<pending, out \o pending>>

FlushPending_Reversed(cw, pending, out) ==
    IF cw # "OPEN" THEN <<pending, out>>
    ELSE <<<<>>, out \o [i \in 1..Len(pending) |-> pending[Len(pending) + 1 - i]]>>

\* flushPending: <<what stays buffered, what has been sent>>
FlushPending(cw, pending, out) ==
    IF cw # "OPEN" THEN <<pending, out>> ELSE <<<<>>, out \o pending>>

\* await sandbox.wsConnect(wsRequest, MOLTBOT_PORT) settles, and what follows
BgConnect(r, err) ==
    /\ HandlerYielded
    /\ bg = "connect"
    /\ CASE r = "webSocket" ->
              /\ containerWs' = "OPEN"
              /\ containerReady' = TRUE
              /\ pendingToContainer' = FlushPending("OPEN", pendingToContainer, sent)[1]
              /\ sent' = FlushPending("OPEN", pendingToContainer, sent)[2]
              /\ bg' = "bridged"
              /\ UNCHANGED <<serverWs, closedBy, serverClose, bgError>>
         [] r = "noWebSocket" ->
              /\ bg' = "failed"
              /\ bgError' = NoThrow
              /\ TryClose(1011, Text("other", 22))
              /\ UNCHANGED <<containerWs, containerReady, pendingToContainer, sent>>
         [] OTHER ->
              /\ BgCatch(err)
              /\ UNCHANGED <<containerWs, containerReady, pendingToContainer, sent>>
    /\ UNCHANGED <<hpc, received, late, dropped, host, containerClose, containerClosedBy>>
    /\ UNCHANGED <<relayVars, storageVars, gatewayVars, pollVars, envVars>>

PendingHasRoom_Always(n) == TRUE

\* pendingToContainer.length < 256
PendingHasRoom(n) == n < PendingCap

\* the message listener of serverWs, on the next message of the client
ClientMessage ==
    /\ HandlerYielded
    /\ serverWs = "OPEN"
    /\ received < MaxMsgs
    /\ containerReady => late < MaxLate
    /\ received' = received + 1
    /\ late' = IF containerReady THEN late + 1 ELSE late
    /\ IF containerReady /\ containerWs = "OPEN"
       THEN /\ sent' = Append(sent, received + 1)
            /\ UNCHANGED <<pendingToContainer, dropped>>
       ELSE IF PendingHasRoom(Len(pendingToContainer))
            THEN /\ pendingToContainer' = Append(pendingToContainer, received + 1)
                 /\ UNCHANGED <<sent, dropped>>
            ELSE /\ dropped' = dropped + 1
                 /\ UNCHANGED <<pendingToContainer, sent>>
    /\ UNCHANGED <<hpc, serverWs, closedBy, bg, bgError, containerWs, containerReady>>
    /\ UNCHANGED <<closeVars, relayVars, storageVars, gatewayVars, pollVars, envVars>>

PassOn_ClientError(code, reason) == Close(1011, Text("other", 12))

\* containerWs.close(event.code, event.reason)
PassOn(code, reason) == Close(code, reason)

\* the client closes: the close listener of serverWs
ClientClose(code, reason) ==
    /\ HandlerYielded
    /\ serverWs = "OPEN"
    /\ serverWs' = "CLOSED"
    /\ closedBy' = "client"
    /\ serverClose' = Close(code, reason)
    /\ IF containerWs = "OPEN"
       THEN /\ containerWs' = "CLOSED"
            /\ containerClose' = PassOn(code, reason)
            /\ containerClosedBy' = "bridge"
       ELSE UNCHANGED <<containerWs, containerClose, containerClosedBy>>
    /\ UNCHANGED <<hpc, bg, bgError, containerReady, pendingToContainer, sent,
                   received, late, dropped, host>>
    /\ UNCHANGED <<relayVars, storageVars, gatewayVars, pollVars, envVars>>

\* the error listener of serverWs: containerWs?.close(1011, 'Client error')
ClientError ==
    /\ HandlerYielded
    /\ serverWs = "OPEN"
    /\ containerWs = "OPEN"
    /\ containerWs' = "CLOSED"
    /\ containerClose' = Close(1011, Text("other", 12))
    /\ containerClosedBy' = "bridge"
    /\ UNCHANGED <<hpc, serverWs, closedBy, bg, bgError, containerReady,
                   pendingToContainer, sent, received, late, dropped, host, serverClose>>
    /\ UNCHANGED <<relayVars, storageVars, gatewayVars, pollVars, envVars>>

\* the container closes with a reason: the close listener of containerWs
ContainerClose(code, reason, hostLen) ==
    /\ bg = "bridged"
    /\ containerWs = "OPEN"
    /\ containerWs' = "CLOSED"
    /\ containerClose' = Close(code, reason)
    /\ containerClosedBy' = "container"
    /\ TryClose(code, Truncate(transformErrorMessage(reason, hostLen)))
    /\ UNCHANGED <<hpc, bg, bgError, containerReady, pendingToContainer, sent,
                   received, late, dropped, host>>
    /\ UNCHANGED <<relayVars, storageVars, gatewayVars, pollVars, envVars>>

\* the error listener of containerWs: serverWs.close(1011, 'Container error')
ContainerError ==
    /\ bg = "bridged"
    /\ containerWs = "OPEN"
    /\ serverWs = "OPEN"
    /\ TryClose(1011, Text("other", 15))
    /\ UNCHANGED <<hpc, bg, bgError, containerWs, containerReady, pendingToContainer,
                   sent, received, late, dropped, host, containerClose, containerClosedBy>>
    /\ UNCHANGED <<relayVars, storageVars, gatewayVars, pollVars, envVars>>

\* the messages a container sends
ErrorMessages ==
    {Text("none", 0), Text("other", 0), Text("nonString", 1), Text("other", 30),
     Text("token", 21), Text("pairing", 16)}
ContainerMessages ==
    {Payload("binary", FALSE, Text("none", 0), "canonical"),
     Payload("string", FALSE, Text("none", 0), "canonical")}
        \cup {Payload("string", TRUE, m, f) :
                 m \in ErrorMessages, f \in {"canonical", "spaced", "lossy"}}

\* the message listener of containerWs, on a message of the container
ContainerMessage(data) ==
    /\ bg = "bridged"
    /\ containerWs = "OPEN"
    /\ containerData' = data
    /\ clientData' = IF serverWs = "OPEN" THEN Relay(data, host) ELSE NoData
    /\ UNCHANGED <<hpc, serverWs, closedBy, bg, bgError, containerWs, containerReady,
                   pendingToContainer, sent, received, late, dropped, closeVars>>
    /\ UNCHANGED <<storageVars, gatewayVars, pollVars, envVars>>

CloseReasons == {Text("other", 0), Text("other", 124), Text("token", 21), Text("pairing", 16)}

\* the codes of close events: normal, going away, an application's own
CloseCodes == {1000, 1001, 4000}

\* the reasons a client's close frame can carry: none, or the longest one
ClientReasons == {Text("other", 0), Text("other", ReasonLimit)}

Handler == HAccept \/ HWaitUntil \/ HRespond

BridgeStep ==
    \/ HAccept
    \/ HWaitUntil
    \/ HRespond
    \/ \E ok \in BOOLEAN, err \in Throwables : BgEnsure(ok, err)
    \/ \E r \in {"webSocket", "noWebSocket", "throws"}, err \in Throwables :
          BgConnect(r, err)
    \/ ClientMessage
    \/ \E code \in CloseCodes, reason \in ClientReasons : ClientClose(code, reason)
    \/ ClientError
    \/ \E code \in CloseCodes, reason \in CloseReasons : ContainerClose(code, reason, host)
    \/ ContainerError

(***************************************************************************)
(* The life of one sandbox: cold starts, the backend, the clock.           *)
(***************************************************************************)
RestoreIdle ==
    /\ backupConfigDir = NoDir
    /\ needsMigration = FALSE
    /\ legacyMigrated = FALSE
    /\ localTime = Absent
    /\ r2Time = Absent
    /\ rres = NoResult
    /\ rOps = {}
    /\ rCanceledAt = {}

SyncIdle ==
    /\ spc = "idle"
    /\ configDir = CONFIG_DIR
    /\ sres = NoSync
    /\ sOps = {}
    /\ cron = Cron("idle", 0, "none")

\* ensureMoltbotGateway finds no gateway: restoreFromR2 is called
ColdStart ==
    /\ gateway = "down"
    /\ rpc = "idle"
    /\ spc = "idle"
    /\ starts < MaxColdStarts
    /\ starts' = starts + 1
    /\ rpc' = "probeNew"
    /\ UNCHANGED <<fs, now, writes, syncs, faultsLeft, outcome, linked, gateway, syncVars, backupConfigDir,
                   needsMigration, legacyMigrated, localTime, r2Time, rres,
                   rOps, rCanceledAt>>
    /\ UNCHANGED <<bridgeVars, gatewayVars, pollVars, envVars>>

\* a name that the glob * leaves out
Hidden(name) == name \in {".last-sync", ".r2-restored"}

\* start-openclaw.sh, a real /root/.openclaw: cp -a /root/.openclaw/* to the
\* bucket's openclaw/, then rm -rf /root/.openclaw
MoveToR2(f) ==
    [p \in DOMAIN f |->
        IF Under(p, CONFIG_DIR) THEN Absent
        ELSE IF /\ Under(p, OPENCLAW_R2)
                /\ ~Hidden(p[Len(OPENCLAW_R2) + 1])
                /\ f[Rebase(p, OPENCLAW_R2, CONFIG_DIR)] # Absent
             THEN f[Rebase(p, OPENCLAW_R2, CONFIG_DIR)]
             ELSE f[p]]

\* start-openclaw.sh: onboard writes openclaw.json, through the symlink, when
\* there is none
Onboard(f, n) ==
    IF TestF(f, OPENCLAW_R2 \o <<"openclaw.json">>) THEN f
    ELSE [f EXCEPT ![OPENCLAW_R2 \o <<"openclaw.json">>] = Data(n)]

\* start-openclaw.sh from the symlink step to the exec of the gateway
StartScript(f, lnk, n) == Onboard(IF lnk THEN f ELSE MoveToR2(f), n)

\* restoreFromR2 has returned: the startup script is spawned, or, after a
\* reset, the attempt is given up and left to a later call
Spawn ==
    /\ rpc = "done"
    /\ rpc' = "idle"
    /\ IF rres.details = "DO reset during restore"
       THEN UNCHANGED <<fs, linked, gateway>>
       ELSE /\ gateway' = "up"
            /\ linked' = TRUE
            /\ fs' = StartScript(fs, linked, writes)
    /\ backupConfigDir' = NoDir
    /\ needsMigration' = FALSE
    /\ legacyMigrated' = FALSE
    /\ localTime' = Absent
    /\ r2Time' = Absent
    /\ rres' = NoResult
    /\ rOps' = {}
    /\ rCanceledAt' = {}
    /\ UNCHANGED <<counters, faultsLeft, outcome, syncVars>>
    /\ UNCHANGED <<bridgeVars, gatewayVars, pollVars, envVars>>

BackendFiles == {OPENCLAW_JSON, CONFIG_DIR \o <<"workspace", "IDENTITY.md">>}

\* the running backend changes a file of its config directory
BackendWrite(p) ==
    /\ gateway = "up"
    /\ writes < MaxWrites
    /\ writes' = writes + 1
    /\ fs' = [fs EXCEPT ![Resolve(p)] = Data(writes + 1)]
    /\ UNCHANGED <<now, starts, syncs, faultsLeft, outcome, linked, gateway, restoreVars, syncVars>>
    /\ UNCHANGED <<bridgeVars, gatewayVars, pollVars, envVars>>

\* the gateway process ends (crash, kill); the sandbox and its files stay
GatewayExit ==
    /\ gateway = "up"
    /\ gateway' = "down"
    /\ UNCHANGED <<fs, linked, counters, faultsLeft, outcome, restoreVars, syncVars>>
    /\ UNCHANGED <<bridgeVars, gatewayVars, pollVars, envVars>>

Tick ==
    /\ now < MaxTime
    /\ now' = now + 1
    /\ UNCHANGED <<fs, writes, starts, syncs, faultsLeft, outcome, linked, gateway, restoreVars, syncVars>>
    /\ UNCHANGED <<bridgeVars, gatewayVars, pollVars, envVars>>

(***************************************************************************)
(* waitForProcess: polling a process handle.                               *)
(***************************************************************************)
Statuses == {"starting", "running", "completed", "failed", "exited", "canceled"}

StillRunning_OnlyRunning(status) == status = "running"

\* the wait goes on while the status is starting or running
StillRunning(status) == status \in {"starting", "running"}

PollIdle ==
    /\ wpc = "idle"
    /\ wStatus = "starting"
    /\ wElapsed = 0
    /\ wTimeout = 1
    /\ wInterval = 1
    /\ wError = NoError

\* the sandbox runtime moves the handle on; a terminal status stays
RuntimeStep ==
    /\ wpc # "idle"
    /\ StillRunning(wStatus)
    /\ \E s \in Statuses \ {"starting", wStatus} : wStatus' = s
    /\ UNCHANGED <<wpc, wElapsed, wTimeout, wInterval, wError>>
    /\ UNCHANGED <<storageVars, bridgeVars, gatewayVars, envVars>>

\* one turn of the wait: sample the status; end on a status that is no
\* longer starting or running, or when the timeout has elapsed; else sleep
\* for one poll interval
PollSample ==
    /\ wpc = "polling"
    /\ IF ~StillRunning(wStatus) \/ wElapsed >= wTimeout
       THEN /\ wError' = WaitForProcess(wStatus)
            /\ wpc' = IF WaitForProcess(wStatus) = NoError THEN "resolved" ELSE "rejected"
            /\ UNCHANGED wElapsed
       ELSE /\ wElapsed' = wElapsed + wInterval
            /\ UNCHANGED <<wpc, wError>>
    /\ UNCHANGED <<wStatus, wTimeout, wInterval>>
    /\ UNCHANGED <<storageVars, bridgeVars, gatewayVars, envVars>>

PollStep == RuntimeStep \/ PollSample

(***************************************************************************)
(* Initial states.                                                         *)
(***************************************************************************)
(***************************************************************************)
(* Concurrent ensureMoltbotGateway calls and the start-openclaw.sh runs    *)
(* they spawn.                                                             *)
(***************************************************************************)
Ensures == 1..MaxEnsures

\* the request of the catch-all route: its step, its Accept header, the
\* answer of the readiness check, the response and the ensure call it made
Request(pc, acceptsHtml, ready, resp, call) ==
    [pc |-> pc, acceptsHtml |-> acceptsHtml, ready |-> ready, resp |-> resp, call |-> call]

NoRequest == Request("idle", FALSE, FALSE, "none", 0)

\* the guard of a script run: its step, the probes of the port it has made,
\* its exit code
Guard(pc, tries, exit) == [pc |-> pc, tries |-> tries, exit |-> exit]

NoGuard == Guard("none", 0, Undefined)

GatewayIdle ==
    /\ ens = [i \in Ensures |-> "idle"]
    /\ scr = [i \in Ensures |-> "none"]
    /\ locks = {}
    /\ proxy = NoRequest
    /\ guard = NoGuard

LiveProcesses_None == {}

\* the processes of the sandbox that are starting or running
LiveProcesses == {j \in Ensures : scr[j] \notin {"none", "exited"}}

\* pgrep -f "openclaw gateway": the processes whose command line is the gateway's
GatewayProcesses == {j \in Ensures : scr[j] = "gateway"}

EnsureOrder_SpawnFirst(step) ==
    CASE step = "mount" -> "spawn"
      [] step = "spawn" -> "restore"
      [] step = "restore" -> "waitPort"

\* the steps of a cold start, in the order ensureMoltbotGateway takes them
EnsureOrder(step) ==
    CASE step = "mount" -> "restore"
      [] step = "restore" -> "spawn"
      [] step = "spawn" -> "waitPort"

\* ensureMoltbotGateway up to its first decision: findExistingMoltbotProcess;
\* a running instance makes the call return at once
EnsureFind(i) ==
    /\ ens[i] \in {"idle", "called"}
    /\ ens' = [ens EXCEPT ![i] = IF LiveProcesses # {} THEN "done" ELSE "mount"]
    /\ UNCHANGED <<scr, startVars, storageVars, bridgeVars, pollVars, envVars>>

\* a cold start: mountR2Storage; the call goes on whether or not it succeeds
EnsureMount(i) ==
    /\ ens[i] = "mount"
    /\ ens' = [ens EXCEPT ![i] = EnsureOrder("mount")]
    /\ UNCHANGED <<scr, startVars, storageVars, bridgeVars, pollVars, envVars>>

\* a cold start: restoreFromR2 has run to its end
EnsureRestore(i) ==
    /\ ens[i] = "restore"
    /\ ens' = [ens EXCEPT ![i] = EnsureOrder("restore")]
    /\ UNCHANGED <<scr, startVars, storageVars, bridgeVars, pollVars, envVars>>

\* a cold start: the startup script is spawned
EnsureSpawn(i) ==
    /\ ens[i] = "spawn"
    /\ ens' = [ens EXCEPT ![i] = EnsureOrder("spawn")]
    /\ scr' = [scr EXCEPT ![i] = "pgrep"]
    /\ UNCHANGED <<startVars, storageVars, bridgeVars, pollVars, envVars>>

\* the port answers: ensureMoltbotGateway returns
EnsureReady(i) ==
    /\ ens[i] = "waitPort"
    /\ GatewayProcesses # {}
    /\ ens' = [ens EXCEPT ![i] = "done"]
    /\ UNCHANGED <<scr, startVars, storageVars, bridgeVars, pollVars, envVars>>

\* if pgrep -f "openclaw gateway": wait for the port, else go on
ScriptPgrep(j) ==
    /\ scr[j] = "pgrep"
    /\ scr' = [scr EXCEPT ![j] = IF GatewayProcesses # {} THEN "waitForPort" ELSE "setup"]
    /\ UNCHANGED <<ens, startVars, storageVars, bridgeVars, pollVars, envVars>>

\* the wait loop of the guard: exit 0 once the port answers, exit 1 after 60 tries
ScriptWaitEnds(j) ==
    /\ scr[j] = "waitForPort"
    /\ scr' = [scr EXCEPT ![j] = "exited"]
    /\ UNCHANGED <<ens, startVars, storageVars, bridgeVars, pollVars, envVars>>

\* the symlink and the onboard step
ScriptSetup(j) ==
    /\ scr[j] = "setup"
    /\ scr' = [scr EXCEPT ![j] = "start"]
    /\ fs' = StartScript(fs, linked, writes)
    /\ linked' = TRUE
    /\ UNCHANGED <<ens, startVars, counters, faultsLeft, outcome, gateway, restoreVars, syncVars,
                   bridgeVars, pollVars, envVars>>

TMP_LOCK == <<"tmp", "openclaw-gateway.lock">>

\* gateway.lock in directory dir
GatewayLock(dir) == dir \o <<"gateway.lock">>

\* the lock files a gateway that crashed leaves behind
StaleLocks == {TMP_LOCK, GatewayLock(CONFIG_DIR)}

\* what "$CONFIG_DIR" expands to in the script: the script assigns
\* R2_CONFIG_DIR, CONFIG_LINK and CONFIG_FILE and never CONFIG_DIR, so the
\* word is empty unless the environment of the process holds a value
ScriptConfigDirs == {<<>>, CONFIG_DIR}

\* rm -f path 2>/dev/null || true
RmF(files, path) == files \ {path}

\* rm -f the lock files; exec openclaw gateway --port 18789 ...
ScriptExec(j, dir) ==
    /\ scr[j] = "start"
    /\ locks' = RmF(RmF(locks, TMP_LOCK), GatewayLock(dir))
    /\ scr' = [scr EXCEPT ![j] = "gateway"]
    /\ UNCHANGED <<ens, proxy, guard, storageVars, bridgeVars, pollVars, envVars>>

\* a gateway process ends
ProcessExits(j) ==
    /\ scr[j] = "gateway"
    /\ scr' = [scr EXCEPT ![j] = "exited"]
    /\ UNCHANGED <<ens, startVars, storageVars, bridgeVars, pollVars, envVars>>

\* for i in $(seq 1 60)
ProbeLimit == 60

AfterProbe_ExitOnFailure(g, ok) == Guard("exited", g.tries + 1, IF ok THEN 0 ELSE 1)

\* one round of the wait loop: `exit 0` when the probe of port 18789
\* connected; else `sleep 2` and the next round, `exit 1` after the last
AfterProbe(g, ok) ==
    IF ok THEN Guard("exited", g.tries + 1, 0)
    ELSE IF g.tries + 1 = ProbeLimit THEN Guard("exited", g.tries + 1, 1)
    ELSE Guard("probing", g.tries + 1, Undefined)

\* a run of the script starts: if pgrep -f "openclaw gateway" finds a process
\* it enters the wait loop, else it goes on to the symlink and onboard steps
GuardPgrep ==
    /\ guard.pc = "none"
    /\ guard' = Guard(IF GatewayProcesses # {} THEN "probing" ELSE "setup", 0, Undefined)
    /\ UNCHANGED <<ens, scr, locks, proxy, storageVars, bridgeVars, pollVars, envVars>>

\* the node probe of one round; it connects only to a gateway that runs
GuardProbe(ok) ==
    /\ guard.pc = "probing"
    /\ ok => GatewayProcesses # {}
    /\ guard' = AfterProbe(guard, ok)
    /\ UNCHANGED <<ens, scr, locks, proxy, storageVars, bridgeVars, pollVars, envVars>>

GuardStep == GuardPgrep \/ \E ok \in BOOLEAN : GuardProbe(ok)

\* the statuses of a process that findExistingMoltbotProcess returns
FoundStatuses == {"starting", "running"}

\* existingProcess !== null && existingProcess.status === 'running'
IsGatewayReady(found, status) == found /\ status = "running"

ServesLoadingPage_Never(ready, acceptsHtml) == FALSE

\* !isGatewayReady && !isWebSocketRequest && acceptsHtml, on the route's
\* path past the WebSocket branch, where isWebSocketRequest is false
ServesLoadingPage(ready, acceptsHtml) == ~ready /\ acceptsHtml

\* a non-WebSocket request reaches the catch-all route: the loading page at
\* once with ensureMoltbotGateway handed to waitUntil, or the await of it
ProxyRequest(acceptsHtml, status, i) ==
    /\ proxy.pc = "idle"
    /\ ens[i] = "idle"
    /\ LET ready == IsGatewayReady(LiveProcesses # {}, status)
       IN  IF ServesLoadingPage(ready, acceptsHtml)
           THEN proxy' = Request("responded", acceptsHtml, ready, "loading", i)
           ELSE proxy' = Request("ensure", acceptsHtml, ready, "none", i)
    /\ ens' = [ens EXCEPT ![i] = "called"]
    /\ UNCHANGED <<scr, locks, guard, storageVars, bridgeVars, pollVars, envVars>>

\* the awaited ensureMoltbotGateway returned: containerFetch, the response
ProxyEnsured ==
    /\ proxy.pc = "ensure"
    /\ ens[proxy.call] = "done"
    /\ proxy' = [proxy EXCEPT !.pc = "responded", !.resp = "proxied"]
    /\ UNCHANGED <<ens, scr, locks, guard, storageVars, bridgeVars, pollVars, envVars>>

\* the awaited ensureMoltbotGateway threw, its script having exited before
\* the port answered: the 503 response
ProxyFailed ==
    /\ proxy.pc = "ensure"
    /\ ens[proxy.call] = "waitPort"
    /\ scr[proxy.call] = "exited"
    /\ proxy' = [proxy EXCEPT !.pc = "responded", !.resp = "503"]
    /\ UNCHANGED <<ens, scr, locks, guard, storageVars, bridgeVars, pollVars, envVars>>

\* the response is out; the route takes the next request
ProxyReturn ==
    /\ proxy.pc = "responded"
    /\ proxy' = NoRequest
    /\ UNCHANGED <<ens, scr, locks, guard, storageVars, bridgeVars, pollVars, envVars>>

ProxyStep ==
    \/ \E acceptsHtml \in BOOLEAN, status \in FoundStatuses, i \in Ensures :
          ProxyRequest(acceptsHtml, status, i)
    \/ ProxyEnsured
    \/ ProxyFailed
    \/ ProxyReturn

GatewayStep ==
    \/ \E i \in Ensures :
          \/ EnsureFind(i) \/ EnsureMount(i) \/ EnsureRestore(i)
          \/ EnsureSpawn(i) \/ EnsureReady(i)
    \/ \E j \in Ensures :
          \/ ScriptPgrep(j) \/ ScriptWaitEnds(j) \/ ScriptSetup(j)
          \/ (\E dir \in ScriptConfigDirs : ScriptExec(j, dir))
          \/ ProcessExits(j)

Layouts == {"openclaw", "clawdbot", "flat"}

\* the files a bucket holds for a set of layouts
BucketFiles(layouts, legacyWs) ==
    (IF "openclaw" \in layouts
     THEN {OPENCLAW_R2 \o <<"openclaw.json">>,
           OPENCLAW_R2 \o <<"workspace", "IDENTITY.md">>}
     ELSE {})
    \cup (IF "clawdbot" \in layouts THEN {BACKUP_DIR \o <<"clawdbot", "clawdbot.json">>} ELSE {})
    \cup (IF "flat" \in layouts THEN {BACKUP_DIR \o <<"clawdbot.json">>} ELSE {})
    \cup (IF legacyWs
          THEN {BACKUP_DIR \o <<"workspace", "IDENTITY.md">>,
                BACKUP_DIR \o <<"skills", "SKILL.md">>}
          ELSE {})

\* a bucket left by earlier runs, and a local tree holding the files local
Tree(layouts, legacyWs, manifest, local, localManifest) ==
    [p \in Paths |->
        IF p \in BucketFiles(layouts, legacyWs) THEN Data(0)
        ELSE IF p = LAST_SYNC_R2 THEN manifest
        ELSE IF p = LAST_SYNC_LOCAL THEN localManifest
        ELSE IF p \in local THEN Data(1)
        ELSE Absent]

\* the tree f once /root/.openclaw is the symlink: its files are the
\* bucket's openclaw/
Link(f) ==
    [p \in DOMAIN f |->
        IF Under(p, CONFIG_DIR) THEN Absent
        ELSE IF Under(p, OPENCLAW_R2) THEN f[Rebase(p, OPENCLAW_R2, CONFIG_DIR)]
        ELSE f[p]]

Manifests == {Absent, Junk, DateIseconds(1), DateIseconds(2)}

InitCounters ==
    /\ outcome = "none"
    /\ now = 1
    /\ writes = 0
    /\ starts = 0
    /\ syncs = 0

\* a fresh sandbox in front of a bucket left by earlier runs
Init ==
    /\ env = Credentials
    /\ mounted = "not called"
    /\ \E layouts \in SUBSET Layouts, legacyWs \in BOOLEAN,
          manifest \in {Absent, DateIseconds(1)} :
            fs = Tree(layouts, legacyWs, manifest, {}, Absent)
    /\ linked = FALSE
    /\ InitCounters
    /\ faultsLeft = MaxFaults
    /\ gateway = "down"
    /\ rpc = "idle"
    /\ RestoreIdle
    /\ SyncIdle
    /\ BridgeIdle
    /\ host = 9
    /\ GatewayIdle
    /\ PollIdle

Next ==
    \/ ColdStart
    \/ RestoreStep
    \/ Spawn
    \/ \E p \in BackendFiles : BackendWrite(p)
    \/ GatewayExit
    \/ SyncStep
    \/ Tick

Spec == Init /\ [][Next]_vars

(***************************************************************************)
(* One run of restoreFromR2, from any local tree and any bucket.           *)
(***************************************************************************)
LocalTrees ==
    { {}, {CLAWDBOT_JSON}, {OPENCLAW_JSON, CONFIG_DIR \o <<"workspace", "IDENTITY.md">>},
      {OPENCLAW_JSON, CLAWDBOT_JSON, CONFIG_DIR \o <<"workspace", "IDENTITY.md">>} }

InitRestore ==
    /\ env = Credentials
    /\ mounted = "not called"
    /\ \E layouts \in SUBSET Layouts, legacyWs \in BOOLEAN,
          manifest \in Manifests, local \in LocalTrees, localManifest \in Manifests :
            \/ /\ linked = FALSE
               /\ fs = Tree(layouts, legacyWs, manifest, local, localManifest)
            \/ /\ linked = TRUE
               /\ OPENCLAW_JSON \in local
               /\ "openclaw" \notin layouts
               /\ fs = Link(Tree(layouts, legacyWs, manifest, local, localManifest))
    /\ InitCounters
    /\ faultsLeft = MaxRunFaults
    /\ gateway = "down"
    /\ rpc = "probeNew"
    /\ RestoreIdle
    /\ SyncIdle
    /\ BridgeIdle
    /\ host = 9
    /\ GatewayIdle
    /\ PollIdle

NextRestore == RestoreStep

SpecRestore == InitRestore /\ [][NextRestore]_vars

(***************************************************************************)
(* A cold start and the scheduled syncs after it: restoreFromR2 runs, the  *)
(* startup script is spawned, the scheduled handler calls syncToR2.        *)
(***************************************************************************)
InitRuns ==
    /\ env = Credentials
    /\ mounted = "not called"
    /\ \E layouts \in {{}, {"openclaw"}, {"clawdbot"}, Layouts}, legacyWs \in BOOLEAN,
          manifest \in {Absent, DateIseconds(2)}, local \in {{}, {OPENCLAW_JSON}},
          localManifest \in {Absent, DateIseconds(1)} :
            fs = Tree(layouts, legacyWs, manifest, local, localManifest)
    /\ linked = FALSE
    /\ InitCounters
    /\ faultsLeft = MaxRunFaults
    /\ gateway = "down"
    /\ rpc = "probeNew"
    /\ RestoreIdle
    /\ SyncIdle
    /\ BridgeIdle
    /\ host = 9
    /\ GatewayIdle
    /\ PollIdle

NextRuns == RestoreStep \/ Spawn \/ SyncStep

SpecRuns == InitRuns /\ [][NextRuns]_vars

(***************************************************************************)
(* One run of restoreFromR2 in front of two manifests of any content.      *)
(***************************************************************************)
Timestamps == {Junk, Quoted, DateIseconds(1), DateIseconds(2)}

InitCompare ==
    /\ env = Credentials
    /\ mounted = "not called"
    /\ \E layouts \in {{"openclaw"}, {"clawdbot"}, Layouts}, legacyWs \in BOOLEAN,
          manifest \in Timestamps, local \in {{}, {OPENCLAW_JSON}},
          localManifest \in Timestamps :
            fs = Tree(layouts, legacyWs, manifest, local, localManifest)
    /\ linked = FALSE
    /\ InitCounters
    /\ faultsLeft = MaxRunFaults
    /\ gateway = "down"
    /\ rpc = "probeNew"
    /\ RestoreIdle
    /\ SyncIdle
    /\ BridgeIdle
    /\ host = 9
    /\ GatewayIdle
    /\ PollIdle

NextCompare == RestoreStep

SpecCompare == InitCompare /\ [][NextCompare]_vars

\* restoreFromR2 runs to its end: each wait for a process ends, by the
\* process or by the timeout
SpecRestoreRun == InitCompare /\ [][NextCompare]_vars /\ WF_vars(RestoreStep)

(***************************************************************************)
(* One run of syncToR2, from any local tree and any bucket.                *)
(***************************************************************************)
SyncSources ==
    SUBSET {OPENCLAW_JSON, LEGACY_CONFIG_DIR \o <<"clawdbot.json">>,
            CLAWD_DIR \o <<"IDENTITY.md">>}

InitSync ==
    /\ env \in SUBSET Credentials
    /\ mounted = "not called"
    /\ \E layouts \in SUBSET Layouts, legacyWs \in BOOLEAN,
          manifest \in Manifests, local \in SyncSources, localManifest \in Manifests :
            \/ /\ linked = FALSE
               /\ fs = Tree(layouts, legacyWs, manifest, local, localManifest)
            \/ /\ linked = TRUE
               /\ "openclaw" \notin layouts
               /\ fs = Link(Tree(layouts, legacyWs, manifest, local, localManifest))
    /\ InitCounters
    /\ faultsLeft = MaxRunFaults
    /\ gateway \in {"up", "down"}
    /\ gateway = "down" => env = Credentials
    /\ rpc = "idle"
    /\ RestoreIdle
    /\ SyncIdle
    /\ BridgeIdle
    /\ host = 9
    /\ GatewayIdle
    /\ PollIdle

NextSync == SyncStep

SpecSync == InitSync /\ [][NextSync]_vars

\* syncToR2 runs to its end, and the scheduled handler logs its result
SpecSyncRun == InitSync /\ [][NextSync]_vars /\ WF_vars(SyncStep)

(***************************************************************************)
(* One bridge session. The runtime runs the handler to its end; nothing    *)
(* makes the client, the gateway or the container socket act.              *)
(***************************************************************************)
InitBridge ==
    /\ host \in HostLens
    /\ env = Credentials
    /\ mounted = "not called"
    /\ fs = Tree({}, FALSE, Absent, {}, Absent)
    /\ linked = FALSE
    /\ InitCounters
    /\ faultsLeft = MaxFaults
    /\ gateway = "down"
    /\ rpc = "idle"
    /\ RestoreIdle
    /\ SyncIdle
    /\ BridgeIdle
    /\ GatewayIdle
    /\ PollIdle

NextBridge == BridgeStep

(***************************************************************************)
(* A bridge whose container socket is connected: the two sockets relay     *)
(* messages until one of them closes.                                      *)
(***************************************************************************)
InitRelay ==
    /\ host \in HostLens
    /\ env = Credentials
    /\ mounted = "not called"
    /\ fs = Tree({}, FALSE, Absent, {}, Absent)
    /\ linked = FALSE
    /\ InitCounters
    /\ faultsLeft = MaxFaults
    /\ gateway = "down"
    /\ rpc = "idle"
    /\ RestoreIdle
    /\ SyncIdle
    /\ GatewayIdle
    /\ PollIdle
    /\ hpc = "returned"
    /\ serverWs = "OPEN"
    /\ closedBy = "nobody"
    /\ bg = "bridged"
    /\ bgError = NoThrow
    /\ containerWs = "OPEN"
    /\ containerReady = TRUE
    /\ pendingToContainer = <<>>
    /\ sent = <<>>
    /\ received = 0
    /\ late = 0
    /\ dropped = 0
    /\ serverClose = NoClose
    /\ containerClose = NoClose
    /\ containerClosedBy = "nobody"
    /\ containerData = NoData
    /\ clientData = NoData

NextRelay ==
    \/ \E data \in ContainerMessages : ContainerMessage(data)
    \/ ClientMessage
    \/ \E code \in CloseCodes, reason \in ClientReasons : ClientClose(code, reason)
    \/ ClientError
    \/ \E code \in CloseCodes, reason \in CloseReasons : ContainerClose(code, reason, host)
    \/ ContainerError

SpecRelay == InitRelay /\ [][NextRelay]_vars

SpecBridge == InitBridge /\ [][NextBridge]_vars /\ WF_vars(Handler)

(***************************************************************************)
(* Concurrent ensure calls in a fresh sandbox.                             *)
(***************************************************************************)
NextGateway == GatewayStep

SpecGateway == Init /\ [][NextGateway]_vars

(***************************************************************************)
(* The startup script in a container that holds the lock files of a        *)
(* gateway that crashed.                                                   *)
(***************************************************************************)
InitStartup ==
    /\ env = Credentials
    /\ mounted = "not called"
    /\ \E layouts \in {{}, {"openclaw"}} : fs = Tree(layouts, FALSE, Absent, {}, Absent)
    /\ linked = FALSE
    /\ InitCounters
    /\ faultsLeft = MaxFaults
    /\ gateway = "down"
    /\ rpc = "idle"
    /\ RestoreIdle
    /\ SyncIdle
    /\ BridgeIdle
    /\ host = 9
    /\ ens = [i \in Ensures |-> "idle"]
    /\ scr = [i \in Ensures |-> "none"]
    /\ locks \in SUBSET StaleLocks
    /\ proxy = NoRequest
    /\ guard = NoGuard
    /\ PollIdle

NextStartup == GatewayStep

SpecStartup == InitStartup /\ [][NextStartup]_vars

(***************************************************************************)
(* Requests to the catch-all route while ensure calls start the gateway.   *)
(***************************************************************************)
InitProxy ==
    /\ env = Credentials
    /\ mounted = "not called"
    /\ fs = Tree({"openclaw"}, FALSE, Absent, {}, Absent)
    /\ linked = FALSE
    /\ InitCounters
    /\ faultsLeft = MaxFaults
    /\ gateway = "down"
    /\ rpc = "idle"
    /\ RestoreIdle
    /\ SyncIdle
    /\ BridgeIdle
    /\ host = 9
    /\ GatewayIdle
    /\ PollIdle

NextProxy == ProxyStep \/ GatewayStep

SpecProxy == InitProxy /\ [][NextProxy]_vars

(***************************************************************************)
(* A run of the startup script, its guard followed probe by probe, beside  *)
(* one ensure call whose script becomes the gateway and may exit.          *)
(***************************************************************************)
NextGuard ==
    \/ GuardStep
    \/ EnsureFind(1) \/ EnsureMount(1) \/ EnsureRestore(1) \/ EnsureSpawn(1)
    \/ EnsureReady(1)
    \/ ScriptPgrep(1) \/ ScriptSetup(1)
    \/ (\E dir \in ScriptConfigDirs : ScriptExec(1, dir))
    \/ ProcessExits(1)

SpecGuard == InitProxy /\ [][NextGuard]_vars /\ WF_vars(GuardStep)


(***************************************************************************)
(* One call of waitForProcess, on a handle in any status.                  *)
(***************************************************************************)
InitPoller ==
    /\ env = Credentials
    /\ mounted = "not called"
    /\ fs = Tree({}, FALSE, Absent, {}, Absent)
    /\ linked = FALSE
    /\ InitCounters
    /\ faultsLeft = MaxFaults
    /\ gateway = "down"
    /\ rpc = "idle"
    /\ RestoreIdle
    /\ SyncIdle
    /\ BridgeIdle
    /\ host = 9
    /\ GatewayIdle
    /\ wpc = "polling"
    /\ wStatus \in Statuses
    /\ wElapsed = 0
    /\ wTimeout \in 1..MaxTimeout
    /\ wInterval \in 1..MaxInterval
    /\ wError = NoError

NextPoller == PollStep

SpecPoller == InitPoller /\ [][NextPoller]_vars /\ WF_vars(PollSample)

(***************************************************************************)
(* Properties of restoreFromR2                                             *)
(***************************************************************************)
ResetResult == Result(FALSE, "DO reset during restore", FALSE)
SkipResult == Result(FALSE, "Local data is newer or same", FALSE)

ProbeSteps == {"probeNew", "probeLegacy", "probeFlat"}
ShouldRestoreSteps == {"catLocal", "catR2", "compare"}

\* the decision table on the manifests the file tree holds
TableSaysRestore(f) ==
    IF Cat(f, LAST_SYNC_LOCAL) = Absent THEN TRUE
    ELSE IF Cat(f, LAST_SYNC_R2) = Absent THEN FALSE
    ELSE DateEpoch(Cat(f, LAST_SYNC_R2)) > DateEpoch(Cat(f, LAST_SYNC_LOCAL))

\* C1 as the spec states it: once a layout is detected, the config copy is
\* started exactly when the decision table on the two manifests says restore
\* (local absent: copy; local present, remote absent: skip; both present: copy
\* iff the remote timestamp is strictly greater), and a run that skips returns
\* 'Local data is newer or same'. Stated for the runs in which no process
\* surfaced a canceled condition.
C1_TableDecides ==
    rCanceledAt = {} =>
        /\ rpc = "copy" => TableSaysRestore(View)
        /\ (rpc = "done" /\ rres = SkipResult) => ~TableSaysRestore(View)

LastThrew == outcome \in {"canceled", "throwCancel", "throwOther"}

\* C1 amended: a manifest read yields the manifest when its cat ran to
\* completion and the empty text otherwise. The config copy is started iff
\* one of shouldRestore's processes rejects or is canceled (restore as a
\* fallback), or the local text read is empty, or both texts are non-empty
\* and the comparison ran to completion with epoch(remote) > epoch(local).
\* Otherwise the run ends with 'Local data is newer or same' having started
\* no copy, rename or marker write and having left the file tree alone.
C1_DecisionOnReads ==
    [][/\ (rpc = "catLocal" /\ rpc' = "catR2") =>
             localTime' = IF outcome' = "done" THEN Cat(View, LAST_SYNC_LOCAL) ELSE Absent
       /\ (rpc = "catR2" /\ rpc' # "copy") =>
             r2Time' = IF outcome' = "done" THEN Cat(View, LAST_SYNC_R2) ELSE Absent
       /\ (rpc \in ShouldRestoreSteps /\ rpc' \in {"copy", "done"}) =>
             /\ rpc' = "copy" <=>
                   \/ LastThrew'
                   \/ localTime' = Absent
                   \/ /\ rpc = "compare"
                      /\ outcome' = "done"
                      /\ DateEpoch(r2Time') > DateEpoch(localTime')
             /\ rpc' = "done" =>
                   /\ rres' = SkipResult
                   /\ rOps' \cap {"copy", "rename", "marker"} = {}
                   /\ fs' = fs
       /\ (rpc \in ShouldRestoreSteps /\ rpc' = "compare") =>
             localTime' # Absent /\ r2Time' # Absent]_vars

\* a run whose comparison ran to completion and found the remote manifest
\* no newer than the local one: it skipped
C1_Witness ==
    /\ rpc = "done"
    /\ rres = SkipResult
    /\ "compare" \in rOps
    /\ outcome = "done"
    /\ TestF(View, LAST_SYNC_LOCAL)
    /\ DateEpoch(View[LAST_SYNC_LOCAL]) >= DateEpoch(View[LAST_SYNC_R2])

\* C3: a canceled condition surfaced by the first, second or third layout
\* probe ends the run at once with {restored: false, details: 'DO reset
\* during restore'}: no further process is started and the result is never
\* 'No backup data found'.
C3_ProbeCancelAborts ==
    [][/\ (rpc \in ProbeSteps /\ rCanceledAt' # {}) =>
             rpc' = "done" /\ rres' = ResetResult
       /\ (rpc = "done" /\ rCanceledAt \cap ProbeSteps # {}) =>
             rOps' = rOps /\ rres' = rres /\ fs' = fs]_vars

\* the second probe surfaced the canceled condition
C3_Witness ==
    /\ rpc = "done"
    /\ rres = ResetResult
    /\ rOps = {"probeNew", "probeLegacy"}
    /\ rCanceledAt = {"probeLegacy"}

\* the operations of restoreFromR2 after the probes that C4 names
LaterSteps ==
    {"catLocal", "catR2", "compare", "copy", "rename", "wsCheck", "wsMerge",
     "skCheck", "skMerge"}

\* C4: a canceled condition surfaced by any operation restoreFromR2 issues
\* after the probes (manifest reads, timestamp comparison, config copy,
\* legacy rename, legacy merges) aborts the restore with a reset-specific
\* reason: the run ends with restored = false and 'DO reset during restore'.
C4_AnyCancelAborts ==
    (rpc = "done" /\ rCanceledAt \cap LaterSteps # {}) => rres = ResetResult

(***************************************************************************)
(* Properties of syncToR2                                                  *)
(***************************************************************************)
\* neither openclaw.json nor clawdbot.json exists in the sandbox
NoConfigFile ==
    /\ ~TestF(View, OPENCLAW_JSON)
    /\ ~TestF(View, LEGACY_CONFIG_DIR \o <<"clawdbot.json">>)

\* C5 as the spec states it: with neither config file in the sandbox, the
\* call returns success = false with 'Sync aborted: no config file found'
\* and a directory listing. Stated for the calls that got as far as the
\* source check.
C5_AlwaysAbortedResult ==
    (spc = "done" /\ NoConfigFile /\ "check" \in sOps) => sres = SyncAborted

\* C5 amended: with neither config file in the sandbox, syncToR2 starts no
\* rsync and no manifest write, leaves the file tree as it is and returns
\* success = false. The error is 'Sync aborted: no config file found' with
\* the directory listing exactly when the listing process was reached and
\* did not reject; it is 'Failed to verify source files' when the check or
\* the listing rejects or is canceled, and otherwise the missing-credentials
\* or failed-mount error.
C5_NoConfigNoSync ==
    [][NoConfigFile =>
         /\ fs' = fs
         /\ sOps' \cap {"rsync", "readback"} = {}
         /\ (spc # "done" /\ spc' = "done") =>
               /\ ~sres'.success
               /\ sres' = SyncAborted <=> (spc = "listing" /\ ~LastThrew')
               /\ sres'.error = "Failed to verify source files" <=>
                     (spc \in {"check", "listing"} /\ LastThrew')
               /\ spc = "idle" =>
                     sres'.error \in {"R2 storage is not configured",
                                      "Failed to mount R2 storage"}]_vars

\* a sync without a config file that ended with the listing
C5_Witness ==
    /\ spc = "done"
    /\ NoConfigFile
    /\ sres = SyncAborted
    /\ sOps = {"check", "listing"}

(***************************************************************************)
(* Properties of the life of a sandbox                                     *)
(***************************************************************************)
\* the version of a file's content; no file is older than every version
Version(c) == IF c = Absent THEN 0 - 1 ELSE c[2]

\* the local files are at least as new as their mirror in the bucket
LocalCurrent ==
    /\ TestF(View, OPENCLAW_JSON)
    /\ \A p \in BackendFiles :
          Version(View[p]) >= Version(fs[Rebase(p, CONFIG_DIR, OPENCLAW_R2)])

\* C10: across syncs and cold restarts in one sandbox, a restore never
\* overwrites a local file with older remote content, and whenever the local
\* data is at least as new as the mirror of the last successful sync the
\* manifest comparison makes restoreFromR2 skip the copy.
C10_NeverOlderOverLocal ==
    [][/\ rpc = "copy" =>
             \A p \in BackendFiles :
                 TestF(View, p) => Version(View'[p]) >= Version(View[p])
       /\ (rpc \in ShouldRestoreSteps /\ MatchesDatePrefix(View[LAST_SYNC_R2])
             /\ LocalCurrent /\ ~LastThrew')
            => rpc' # "copy"]_vars

(***************************************************************************)
(* Properties of the WebSocket bridge                                      *)
(***************************************************************************)
\* the messages the client has sent, in arrival order
Arrived == [i \in 1..received |-> i]

\* C2: when no more than 256 messages arrive before the container socket is
\* ready, the messages sent to the container are the messages received, in
\* arrival order and each once: nothing is sent before the socket is ready,
\* the buffered messages are sent first, and what is not yet sent is the
\* buffer, in order.
C2_SentInArrivalOrder ==
    dropped = 0 =>
        /\ sent \o pendingToContainer = Arrived
        /\ ~containerReady => sent = <<>>
        /\ (containerReady /\ containerWs = "OPEN") =>
              pendingToContainer = <<>> /\ sent = Arrived

\* three messages were buffered, flushed, and a fourth one followed them
C2_Witness ==
    /\ containerReady
    /\ containerWs = "OPEN"
    /\ late = 1
    /\ dropped = 0
    /\ sent = <<1, 2, 3, 4>>

\* C7: when the background task of a session has ended in failure, whatever
\* was thrown, the accepted inbound socket is eventually closed.
C7_FailureClosesInbound == (bg = "failed") ~> (serverWs = "CLOSED")

\* C8: the buffer never holds more than 256 messages, and a message that
\* arrives while the container socket is not ready and the buffer holds 256
\* is dropped: buffer and sent messages stay as they are.
C8_BufferBounded ==
    /\ [](Len(pendingToContainer) <= PendingCap)
    /\ [][(received' = received + 1 /\ Len(pendingToContainer) = PendingCap
             /\ ~(containerReady /\ containerWs = "OPEN"))
            => (pendingToContainer' = pendingToContainer /\ sent' = sent
                  /\ dropped' = dropped + 1)]_vars

\* the buffer is full and a message has been dropped
C8_Witness ==
    /\ Len(pendingToContainer) = PendingCap
    /\ dropped = 1
    /\ ~containerReady

\* C9: the inbound socket is accepted before the background task starts,
\* and the handler returns the 101 response whether or not the gateway or
\* the container socket ever becomes ready.
C9_HandshakeCompletes ==
    /\ [](bg # "none" => serverWs # "NEW")
    /\ <>(hpc = "returned")

\* the response is out while ensureMoltbotGateway is still pending
C9_Witness ==
    /\ hpc = "returned"
    /\ serverWs = "OPEN"
    /\ bg = "ensure"

(***************************************************************************)
(* Properties of the gateway processes                                     *)
(***************************************************************************)
\* C6: at any time at most one gateway process is running, however the
\* ensure calls and the startup scripts they spawn interleave.
C6_AtMostOneGateway == Cardinality(GatewayProcesses) <= 1

(***************************************************************************)
(* Properties of the layout probes                                         *)
(***************************************************************************)
\* the directory of the highest-priority layout the bucket holds
HighestPresent(f) ==
    IF TestF(f, BACKUP_DIR \o <<"openclaw", "openclaw.json">>) THEN BACKUP_DIR \o <<"openclaw">>
    ELSE IF TestF(f, BACKUP_DIR \o <<"clawdbot", "clawdbot.json">>) THEN BACKUP_DIR \o <<"clawdbot">>
    ELSE IF TestF(f, BACKUP_DIR \o <<"clawdbot.json">>) THEN BACKUP_DIR
    ELSE NoDir

\* C11: the layouts are probed in the order openclaw/, clawdbot/, flat; a
\* probe that selects a layout is the last probe; and the layout that is
\* copied is the highest-priority one the bucket holds.
C11_HighestPriorityWins ==
    /\ "probeLegacy" \in rOps => "probeNew" \in rOps
    /\ "probeFlat" \in rOps => "probeLegacy" \in rOps
    /\ (backupConfigDir = BACKUP_DIR \o <<"openclaw">>) => "probeLegacy" \notin rOps
    /\ (backupConfigDir = BACKUP_DIR \o <<"clawdbot">>) => "probeFlat" \notin rOps
    /\ rpc = "copy" => backupConfigDir = HighestPresent(View)

(***************************************************************************)
(* Properties of the legacy merges                                         *)
(***************************************************************************)
\* the local workspace files that exist
WorkspaceFiles == {p \in Paths : Under(p, CONFIG_DIR \o <<"workspace">>) /\ TestF(View, p)}

WaitEnds == wpc = "polling" /\ wpc' # "polling"

\* C13: waitForProcess rejects with 'Process was canceled (Durable Object
\* reset?)' whenever a sample finds the handle canceled, at the first sample
\* or after it changed during the wait, and with that message for no other
\* status: the wait ends rejected exactly on the status canceled, and a wait
\* on a canceled handle ends rejected.
C13_RejectsOnCanceledOnly ==
    /\ [][WaitEnds =>
            /\ (wpc' = "rejected") <=> (wStatus = "canceled")
            /\ (wpc' = "rejected") => (wError' = CanceledMessage)
            /\ (wpc' = "resolved") => (wError' = NoError)]_vars
    /\ [](wpc = "rejected" => IncludesCanceled(wError))
    /\ (wpc = "polling" /\ wStatus = "canceled") ~> (wpc = "rejected")

\* the handle became canceled during the wait, after some sleep
C13_Witness ==
    /\ wpc = "rejected"
    /\ wElapsed > 0
    /\ wElapsed < wTimeout
    /\ wError = CanceledMessage

\* C14: on a handle that never becomes canceled the wait terminates and
\* resolves without error. It ends at the sample that shows a status other
\* than starting or running, without sleeping again, and not before, unless
\* the timeout has elapsed; a wait that ends by timeout resolves and leaves
\* the status running.
C14_ResolvesWithoutError ==
    /\ ([](wStatus # "canceled")) => <>(wpc = "resolved" /\ wError = NoError)
    /\ [][(wpc = "polling" /\ wStatus \in {"completed", "failed", "exited"}
             /\ pollVars' # pollVars)
            => (wpc' = "resolved" /\ wElapsed' = wElapsed)]_vars
    /\ [][WaitEnds =>
            /\ wStatus \notin {"starting", "running"} \/ wElapsed >= wTimeout
            /\ wStatus' = wStatus
            /\ (wStatus \in {"starting", "running"}) => (wpc' = "resolved")]_vars

\* the handle was still running when the timeout elapsed
C14_Witness ==
    /\ wpc = "resolved"
    /\ wStatus = "running"
    /\ wElapsed >= wTimeout
    /\ wError = NoError

(***************************************************************************)
(* Properties of syncToR2's preconditions                                  *)
(***************************************************************************)
\* the steps of syncToR2 that start a sandbox process
ProcessSteps == {"check", "listing", "rsync", "readback"}

\* C15: syncToR2 starts a sandbox process only if the three credentials are
\* set and the mount returned true. With a credential missing it returns
\* 'R2 storage is not configured' without calling the mount; with the mount
\* returning false it returns 'Failed to mount R2 storage'; in both cases it
\* has started no process.
C15_NoProcessUnlessMounted ==
    /\ []((spc \in ProcessSteps \/ sOps # {}) =>
             (Credentials \subseteq env /\ mounted = "true"))
    /\ [][(spc = "idle" /\ spc' # "idle") =>
            /\ ~(Credentials \subseteq env) =>
                  /\ spc' = "done"
                  /\ sres' = SyncFailure("R2 storage is not configured")
                  /\ mounted' = "not called"
            /\ (Credentials \subseteq env) => mounted' \in {"true", "false"}
            /\ mounted' = "false" =>
                  /\ spc' = "done"
                  /\ sres' = SyncFailure("Failed to mount R2 storage")]_vars
    /\ []((spc = "done" /\ mounted # "true") => (sOps = {} /\ ~sres.success))

\* a run that ended at the failed mount
C15_Witness ==
    /\ spc = "done"
    /\ sres = SyncFailure("Failed to mount R2 storage")
    /\ mounted = "false"
    /\ sOps = {}

(***************************************************************************)
(* Properties of syncToR2's result                                         *)
(***************************************************************************)
\* what the read-back of the remote manifest returns: the trimmed stdout of
\* `cat .last-sync`, nothing when the process did not run to its end
ReadBack(o) == IF o = "done" THEN Cat(View, LAST_SYNC_R2) ELSE Absent

\* C16: once the copy command has been started and awaited, the result is
\* decided by the read-back of the remote manifest alone: success = true,
\* with lastSync the text read, iff the text read back is non-empty and
\* starts with a date, whether the copy command ended with exit code zero,
\* non-zero or none, or was still running at its timeout.
C16_ResultFromReadback ==
    [][(spc = "readback" /\ spc' = "done") =>
          /\ sres'.success <=>
                /\ ReadBack(outcome') # Absent
                /\ ReadBack(outcome')[1] = "date"
                /\ ~LastThrew'
          /\ sres'.success => sres'.lastSync = ReadBack(outcome')
          /\ ~sres'.success => sres'.error \in {"Sync failed", "Sync error"}
          /\ fs' = fs]_vars

\* the copy command did not write the manifest, and the manifest of an
\* earlier sync was read back: success
C16_Witness ==
    /\ spc = "done"
    /\ sres.success
    /\ sOps = {"check", "rsync", "readback"}
    /\ sres.lastSync = DateIseconds(2)
    /\ now = 1

(***************************************************************************)
(* Properties of ensureMoltbotGateway                                      *)
(***************************************************************************)
\* a process of the sandbox is starting or running
InstanceRunning == \E j \in Ensures : scr[j] \notin {"none", "exited"}

\* C17: an ensure call that finds a running instance returns at once and is
\* a no-op: it goes through no mount, no restore and no spawn, the processes
\* of the sandbox and its files are as before, and a call that has returned
\* stays returned, however many calls are made.
C17_FoundIsNoOp ==
    [][\A i \in Ensures :
          /\ (ens[i] = "idle" /\ ens'[i] # "idle" /\ InstanceRunning) =>
                /\ ens'[i] = "done"
                /\ scr' = scr
                /\ storageVars' = storageVars
          /\ ens[i] = "done" => ens'[i] = "done"
          /\ (ens[i] = "done" /\ scr[i] = "none") => scr'[i] = "none"]_vars

\* two calls found the gateway that a third one had started
C17_Witness ==
    \E i, j \in Ensures :
        /\ i # j
        /\ ens[i] = "done" /\ scr[i] = "none"
        /\ ens[j] = "done" /\ scr[j] = "none"
        /\ Cardinality(GatewayProcesses) = 1

\* the steps a call may take, in order
EnsureMoves ==
    { <<"idle", "done">>, <<"idle", "mount">>, <<"mount", "restore">>,
      <<"restore", "spawn">>, <<"spawn", "waitPort">>, <<"waitPort", "done">> }

\* C18: within one call the steps come in the order mount, restore, spawn,
\* wait-for-port; the restore is reached only by a call that found no
\* running instance, it is over before that call spawns the startup script,
\* and a call made while an instance is running never reaches it.
C18_StepsInOrder ==
    [][\A i \in Ensures :
          /\ ens'[i] # ens[i] => <<ens[i], ens'[i]>> \in EnsureMoves
          /\ (ens[i] = "idle" /\ ens'[i] = "mount") => ~InstanceRunning
          /\ (ens[i] = "idle" /\ InstanceRunning) => ens'[i] \notin {"mount", "restore", "spawn"}
          /\ (scr[i] = "none" /\ scr'[i] # "none") =>
                (ens[i] = "spawn" /\ ens'[i] = "waitPort")
          /\ ens[i] \in {"idle", "mount", "restore"} => scr[i] = "none"]_vars

\* a cold call waits for the port of the script it spawned after its restore,
\* and a later call has found that instance
C18_Witness ==
    \E i, j \in Ensures :
        /\ ens[i] = "waitPort" /\ scr[i] = "setup"
        /\ ens[j] = "done" /\ scr[j] = "none"

(***************************************************************************)
(* Close propagation of the WebSocket bridge                               *)
(***************************************************************************)
\* C19: when the inbound socket closes with code c and reason r while the
\* container socket exists and is open, the bridge closes the container
\* socket with the same code c and the same reason r.
C19_InboundClosePassedOn ==
    [][(serverWs = "OPEN" /\ serverWs' = "CLOSED" /\ closedBy' = "client"
            /\ containerWs = "OPEN") =>
          (/\ containerWs' = "CLOSED"
           /\ containerClosedBy' = "bridge"
           /\ containerClose'.code = serverClose'.code
           /\ containerClose'.reason = serverClose'.reason)]_vars

\* the client has closed with its own code and the longest reason, and the
\* container socket was closed with both
C19_Witness ==
    /\ closedBy = "client"
    /\ serverClose = Close(4000, Text("other", ReasonLimit))
    /\ containerClosedBy = "bridge"
    /\ containerClose = serverClose

\* the reason the inbound socket is to be closed with after a container close
Transformed == transformErrorMessage(containerClose.reason, host)

\* C20: when the container socket closes with code c and reason r while the
\* inbound socket is open, the bridge closes the inbound socket with code c
\* and the error-transform of r, cut to 120 characters and '...' when it is
\* longer than 123; the reason passed is never longer than 123 characters.
C20_BackendCloseTransformed ==
    [][(containerWs = "OPEN" /\ containerWs' = "CLOSED"
            /\ containerClosedBy' = "container" /\ serverWs = "OPEN") =>
          (/\ serverWs' = "CLOSED"
           /\ closedBy' = "bridge"
           /\ serverClose'.code = containerClose'.code
           /\ serverClose'.reason =
                 IF Transformed'.len > 123
                 THEN Text(Transformed'.kind, 120 + 3)
                 ELSE Transformed'
           /\ serverClose'.reason.len <= 123)]_vars

\* a token error of the gateway on a long host: the notice was cut to 123
C20_Witness ==
    /\ containerClosedBy = "container"
    /\ containerClose.reason.kind = "token"
    /\ closedBy = "bridge"
    /\ serverClose = Close(containerClose.code, Text("tokenNotice", ReasonLimit))
    /\ Transformed.len > ReasonLimit

(***************************************************************************)
(* Messages of the container on their way to the client                    *)
(***************************************************************************)
\* the value of a JSON text apart from its error.message: the text of the
\* client has it iff no number of the container's text was rounded
SameOtherFields(in, out) ==
    /\ out.type = in.type
    /\ out.json = in.json
    /\ out.form # "rounded"

\* C21: a message of the container reaches the client unchanged unless it is
\* a string that parses as JSON with a non-empty error.message; of such a
\* payload only error.message is rewritten, and an error.message without one
\* of the three phrases keeps its text.
C21_OnlyErrorMessageRewritten ==
    clientData # NoData =>
        IF containerData.type = "string" /\ containerData.json
              /\ HasErrorMessage(containerData)
        THEN /\ SameOtherFields(containerData, clientData)
             /\ containerData.msg.kind \notin {"token", "pairing"} =>
                   clientData.msg = containerData.msg
        ELSE clientData = containerData

(***************************************************************************)
(* Failures of the steps of restoreFromR2                                  *)
(***************************************************************************)
\* the steps after the config copy and the rename
AfterCopy == {"marker", "wsCheck", "wsMerge", "skCheck", "skMerge", "validate"}

\* the outcomes with which startProcess, waitForProcess or getLogs throws
Throwing == {"canceled", "throwCancel", "throwOther"}

\* C22: once the config copy (and the rename that follows it) has completed
\* without throwing, no failure of the marker write, of the legacy workspace
\* merge, of the legacy skills merge or of the validation changes the
\* outcome: the run goes on through these steps and ends with restored=true
\* and details naming the backup source.
C22_AfterCopyNonFatal ==
    [][(rpc \in AfterCopy /\ rpc' # rpc) =>
          \/ rpc' \in AfterCopy
          \/ /\ rpc' = "done"
             /\ rres'.restored
             /\ rres'.details = "Restored from"
             /\ backupConfigDir' = backupConfigDir
             /\ backupConfigDir # NoDir]_vars

\* the validation threw after the skills merge had been canceled, and the
\* result is restored=true
C22_Witness ==
    /\ rpc = "done"
    /\ rres.restored
    /\ outcome = "throwOther"
    /\ "skMerge" \in rCanceledAt

Probes == {"probeNew", "probeLegacy", "probeFlat"}

\* C23: when none of the three probes exits 0 and none surfaces a canceled
\* condition, the run starts nothing but the diagnostic listing and returns
\* restored=false with 'No backup data found', whether or not the listing
\* succeeds.
C23_NoBackupFound ==
    (Probes \subseteq rOps /\ backupConfigDir = NoDir /\ rCanceledAt \cap Probes = {}) =>
        /\ rOps \subseteq Probes \cup {"diag"}
        /\ rpc \in {"diag", "done"}
        /\ rpc = "done" =>
              /\ "diag" \in rOps
              /\ rres = Result(FALSE, "No backup data found", FALSE)

\* a probe erred on a bucket that holds a layout, no layout was found, the
\* listing was canceled, and the result is 'No backup data found'
C23_Witness ==
    /\ rpc = "done"
    /\ rres.details = "No backup data found"
    /\ outcome = "throwCancel"
    /\ faultsLeft = 0
    /\ \E p \in DOMAIN fs : p[Len(p)] \in {"openclaw.json", "clawdbot.json"} /\ fs[p] # Absent

\* C24: when starting or awaiting the config copy, or the rename that follows
\* it, throws, the run returns restored=false with 'Config restore failed'
\* and runs neither the marker write nor a legacy merge nor the validation.
C24_CopyFailureEndsRun ==
    [][/\ (rpc \in {"copy", "rename"} /\ rpc' # rpc /\ outcome' \in Throwing) =>
              /\ rpc' = "done"
              /\ rres' = Result(FALSE, "Config restore failed", FALSE)
       /\ (rpc' = "done" /\ rres'.details = "Config restore failed") =>
              /\ rOps' \cap AfterCopy = {}
              /\ outcome' \in Throwing
              /\ rpc \in {"copy", "rename"}]_vars

\* the rename of a legacy backup threw after the copy had gone through
C24_Witness ==
    /\ rpc = "done"
    /\ rres = Result(FALSE, "Config restore failed", FALSE)
    /\ "rename" \in rOps
    /\ outcome = "throwOther"

(***************************************************************************)
(* The scheduled handler                                                   *)
(***************************************************************************)
\* C26: the scheduled handler calls syncToR2 only if a gateway process was
\* found: when none is found it returns without a mount or a copy; when one
\* is found it calls syncToR2 once, and it returns normally, with the
\* result logged, after a success as after a failure.
C26_SyncOnlyWhenFound ==
    [][/\ (spc = "idle" /\ spc' # "idle") =>
              (gateway = "up" /\ cron'.pc = "sync" /\ cron'.calls = 1)
       /\ (cron'.pc = "returned" /\ cron' # cron /\ spc = "idle") =>
              /\ gateway # "up"
              /\ cron'.calls = 0
              /\ fs' = fs /\ mounted' = mounted /\ sOps' = sOps /\ spc' = "idle"
       /\ (spc = "done" /\ spc' # "done") =>
              /\ cron'.pc = "returned"
              /\ cron'.calls = 1
              /\ cron'.logged = IF sres.success THEN "completed successfully" ELSE "failed"
       /\ (cron.pc = "sync" /\ spc # "done") => cron' = cron]_vars

\* the handler has returned after its one syncToR2 call failed
C26_Witness ==
    /\ cron = Cron("returned", 1, "failed")
    /\ spc = "idle"

\* the handler has returned without a syncToR2 call: no process was found
C26_WitnessSkip ==
    /\ cron = Cron("returned", 0, "skipping sync")
    /\ gateway = "down"
    /\ mounted = "not called"

(***************************************************************************)
(* restoreFromR2 and syncToR2 resolve                                      *)
(***************************************************************************)
RestorePositions ==
    {"idle", "done", "probeNew", "probeLegacy", "probeFlat", "diag", "catLocal",
     "catR2", "compare", "copy", "rename", "marker", "wsCheck", "wsMerge",
     "skCheck", "skMerge", "validate"}

SyncPositions == {"idle", "done", "check", "listing", "rsync", "readback"}

\* C27: restoreFromR2 and syncToR2 never reject: whatever the outcome of the
\* process a run waits on (exit code, timeout, thrown error, canceled), the
\* run has a next step, it is never left by an exception, and it ends with a
\* result object, restored true or false, success true or an error.
C27_NeverRejects ==
    /\ rpc \in RestorePositions
    /\ spc \in SyncPositions
    /\ rpc = "done" => (rres.restored \in BOOLEAN /\ rres.details # "")
    /\ spc = "done" => (sres.success \/ sres.error # "")
    /\ \A o \in ProcOutcomes :
          (o = "done" \/ faultsLeft # 0) =>
              /\ rpc \notin {"idle", "done"} => ENABLED RestoreOn(o)
              /\ spc \notin {"idle", "done"} => ENABLED SyncOn(o)

\* a run of restoreFromR2 met a fault and resolved, and the run of syncToR2
\* after it has resolved with 'Sync error' after a thrown error
C27_Witness ==
    /\ spc = "done"
    /\ sres.error = "Sync error"
    /\ outcome = "throwOther"
    /\ faultsLeft = 0
    /\ rpc = "idle"


(***************************************************************************)
(* The timestamp comparison of shouldRestore.                              *)
(***************************************************************************)
\* C30: with both manifests read, a comparison that ran to completion treats
\* a timestamp `date` cannot parse as epoch 0: the config copy is started
\* iff epoch(remote) > epoch(local) under that convention, so an unparsable
\* remote timestamp never starts it, two unparsable timestamps skip it, and
\* an unparsable local one with a remote one after the epoch starts it.
C30_UnparsableIsEpochZero ==
    [][(rpc = "compare" /\ rpc' # "compare" /\ outcome' = "done") =>
          (rpc' = "copy" <=> DateEpoch(r2Time) > DateEpoch(localTime))]_vars


(***************************************************************************)
(* The two manifests after a sync.                                         *)
(***************************************************************************)
\* C28: when a run of syncToR2 has returned success = true, the manifest in
\* the local working directory and the manifest in the remote mirror both
\* hold the timestamp of that sync.
C28_BothManifestsStamped ==
    (spc = "done" /\ sres.success) =>
        /\ Cat(View, LAST_SYNC_R2) = DateIseconds(now)
        /\ Cat(View, LAST_SYNC_LOCAL) = DateIseconds(now)


(***************************************************************************)
(* The lock files at the exec of the gateway.                              *)
(***************************************************************************)
\* C29: on every path of the startup script that reaches the exec of the
\* gateway, the lock files a previous run left (/tmp/openclaw-gateway.lock
\* and gateway.lock in the config directory) are gone when the exec happens.
C29_StaleLocksRemoved ==
    [][(\A j \in Ensures :
          ((scr[j] = "start" /\ scr'[j] = "gateway") => locks' \cap StaleLocks = {}))]_vars

(***************************************************************************)
(* The catch-all route while the gateway is not ready.                     *)
(***************************************************************************)
Arrives == proxy.pc = "idle" /\ proxy'.pc # "idle"

\* C25 as the spec states it: while the backend is not running, a
\* non-WebSocket request that reaches the catch-all route gets the loading
\* page at once, without awaiting ensureMoltbotGateway.
C25_LoadingPageWhileNotReady ==
    [][(Arrives /\ ~proxy'.ready) =>
          (proxy'.pc = "responded" /\ proxy'.resp = "loading")]_vars

\* C25 amended: while the backend is not running, a non-WebSocket request
\* whose Accept header includes text/html gets the loading page in the step
\* it arrives in, with ensureMoltbotGateway launched and not awaited; every
\* other request awaits ensureMoltbotGateway and is answered after it, with
\* the proxied response once the call returned or with the 503 response.
C25_LoadingPageForHtml ==
    [][/\ (Arrives /\ ~proxy'.ready /\ proxy'.acceptsHtml) =>
             /\ proxy'.pc = "responded"
             /\ proxy'.resp = "loading"
             /\ ens'[proxy'.call] = "called"
       /\ (Arrives /\ (proxy'.ready \/ ~proxy'.acceptsHtml)) =>
             /\ proxy'.pc = "ensure"
             /\ proxy'.resp = "none"
       /\ (Arrives /\ proxy'.ready) => LiveProcesses # {}
       /\ (proxy.pc = "ensure" /\ proxy'.pc # "ensure") =>
             /\ proxy'.resp \in {"proxied", "503"}
             /\ proxy'.resp = "proxied" => ens[proxy.call] = "done"]_vars

\* the loading page is out while the start it launched is still under way
C25_Witness ==
    /\ proxy.pc = "responded"
    /\ proxy.resp = "loading"
    /\ ens[proxy.call] \in {"mount", "restore", "spawn", "waitPort"}


(***************************************************************************)
(* The rename of a legacy config file.                                     *)
(***************************************************************************)
\* C31: the rename step runs only after a restore from a legacy layout; it
\* changes files only when clawdbot.json exists and openclaw.json does not,
\* and then openclaw.json takes the content of clawdbot.json; an
\* openclaw.json that exists is neither overwritten nor removed by it, and a
\* restore from the current layout starts no rename.
C31_RenameKeepsOpenclawJson ==
    [][/\ (rpc = "rename" /\ rpc' # "rename") =>
             /\ needsMigration
             /\ fs' # fs =>
                   /\ TestF(View, CLAWDBOT_JSON) /\ ~TestF(View, OPENCLAW_JSON)
                   /\ View'[OPENCLAW_JSON] = View[CLAWDBOT_JSON]
                   /\ View'[CLAWDBOT_JSON] = Absent
             /\ TestF(View, OPENCLAW_JSON) => View'[OPENCLAW_JSON] = View[OPENCLAW_JSON]
       /\ backupConfigDir' = OPENCLAW_R2 => "rename" \notin rOps']_vars

\* a restore from a legacy layout has renamed clawdbot.json
C31_Witness ==
    /\ rpc = "marker"
    /\ "rename" \in rOps
    /\ outcome = "done"
    /\ needsMigration
    /\ View[OPENCLAW_JSON] = Data(0)
    /\ ~TestF(View, CLAWDBOT_JSON)


(***************************************************************************)
(* The order of the copies of one sync.                                    *)
(***************************************************************************)
\* the files under dir are in g what they are in f
SameUnder(f, g, dir) == \A p \in DOMAIN f : Under(p, dir) => g[p] = f[p]

\* the three mirrored copies of syncCmd, each as its destination holds it
ConfigCopied == SameUnder(Rsync(View, configDir, OPENCLAW_R2), View', OPENCLAW_R2)
WorkspaceCopied ==
    SameUnder(RsyncExcluding(View, CLAWD_DIR, BACKUP_DIR \o <<"workspace">>, "skills"),
              View', BACKUP_DIR \o <<"workspace">>)
SkillsCopied ==
    SameUnder(Rsync(View, CLAWD_DIR \o <<"skills">>, BACKUP_DIR \o <<"skills">>),
              View', BACKUP_DIR \o <<"skills">>)

\* C32: within one run of syncToR2 the copies run in the order config,
\* workspace, skills and the remote manifest is written after all three: a
\* destination is changed only when the copies before it are complete, and
\* a run whose command did not exit 0 leaves the remote manifest as it was.
C32_CopiesInOrder ==
    [][(spc = "rsync" /\ spc' # "rsync") =>
          /\ ~SameUnder(View, View', BACKUP_DIR \o <<"workspace">>) => ConfigCopied
          /\ ~SameUnder(View, View', BACKUP_DIR \o <<"skills">>) =>
                ConfigCopied /\ WorkspaceCopied
          /\ View'[LAST_SYNC_R2] # View[LAST_SYNC_R2] =>
                ConfigCopied /\ WorkspaceCopied /\ SkillsCopied
          /\ outcome' # "done" => View'[LAST_SYNC_R2] = View[LAST_SYNC_R2]]_vars

\* a run whose command stopped after the config copy: the bucket's config
\* differs from before, the workspace copy and the manifest are untouched
C32_Witness ==
    /\ spc = "readback"
    /\ outcome = "failed"
    /\ ~linked
    /\ View[OPENCLAW_R2 \o <<"openclaw.json">>] = Data(1)
    /\ View[BACKUP_DIR \o <<"workspace", "IDENTITY.md">>] # View[CLAWD_DIR \o <<"IDENTITY.md">>]


(***************************************************************************)
(* The pending buffer once the session is ready.                           *)
(***************************************************************************)
\* a message of the client is delivered to the message listener
Delivered == received' = received + 1

C34_EarlyClosePropagated ==
    (bg = "bridged" /\ closedBy = "client") => containerWs = "CLOSED"


(***************************************************************************)
(* The startup script and the bucket mount.                                *)
(***************************************************************************)
\* C35: the startup script, which runs after the restore, works on local
\* files only: no step of it writes or creates a file under the mount path
\* of the bucket.
C35_ScriptLeavesMountAlone ==
    [][(\A j \in Ensures :
          ((scr[j] = "setup" /\ scr'[j] # "setup") =>
              (\A p \in DOMAIN fs : (Under(p, BACKUP_DIR) => fs'[p] = fs[p]))))]_vars


(***************************************************************************)
(* The pgrep guard of the startup script.                                  *)
(***************************************************************************)
\* C36, the steps: a run of the script that found a gateway process at its
\* start only probes the port and exits; it changes no file and starts no
\* process; it makes at most 60 probes, exits 0 with the first probe that
\* connects and exits 1 with the 60th that fails.
GuardOnlyProbes ==
    [][guard.pc = "probing" =>
          /\ guard'.pc \in {"probing", "exited"}
          /\ guard'.tries <= ProbeLimit
          /\ guard' # guard =>
                /\ guard'.tries = guard.tries + 1
                /\ fs' = fs /\ scr' = scr /\ ens' = ens /\ locks' = locks
                /\ guard'.exit = 0 => GatewayProcesses # {}
                /\ guard'.exit = 1 => guard'.tries = ProbeLimit
                /\ guard'.pc = "probing" => guard'.tries < ProbeLimit]_vars

\* C36: when the startup script detects a gateway process at its start it
\* never runs onboard and never starts a gateway; it probes the port at most
\* 60 times, exits 0 at the first successful probe and 1 after 60 failed
\* ones, and so it always terminates.
C36_GuardWaitsAndExits ==
    /\ GuardOnlyProbes
    /\ (guard.pc = "probing") ~> (guard.pc = "exited" /\ guard.exit \in {0, 1})

\* the gateway the guard had detected exited: 60 probes failed, exit 1
C36_Witness ==
    /\ guard.pc = "exited"
    /\ guard.tries = ProbeLimit
    /\ guard.exit = 1
    /\ GatewayProcesses = {}


(***************************************************************************)
(* The result of a restore whose copy failed.                              *)
(***************************************************************************)
\* the wait for the config copy has just ended and the command had not run
\* to completion (a non-zero exit, or still running at the timeout)
CopyNotCompleted ==
    /\ "copy" \in rOps
    /\ rOps \cap {"rename", "marker"} = {}
    /\ rpc \in {"rename", "marker"}
    /\ outcome \in {"failed", "running"}

\* C37: restoreFromR2 returns restored = true only if the config copy ran to
\* completion with exit code 0: after a copy that exited non-zero or was
\* still running when its wait timed out, the run does not end with
\* restored = true.
C37_RestoredOnlyAfterCopy ==
    [](CopyNotCompleted => [](rpc = "done" => ~rres.restored))


(***************************************************************************)
(* The result of a sync whose command failed.                              *)
(***************************************************************************)
\* the wait for syncCmd has just ended and the command had exited non-zero:
\* one of its copies failed and it wrote no manifest
SyncCmdFailed ==
    /\ spc = "readback"
    /\ "readback" \notin sOps
    /\ outcome = "failed"

\* C38: syncToR2 returns success = true only if the same run completed its
\* three copies and wrote the remote manifest: after a command that failed
\* the run does not end with success = true and the manifest of an earlier
\* sync as its lastSync.
C38_SuccessOnlyAfterOwnWrite ==
    [](SyncCmdFailed => [](spc = "done" => ~sres.success))


\* ---------------------------------------------------------------------
\* The reasons of the closes the bridge issues on the inbound socket
\* ---------------------------------------------------------------------

\* the step in which the catch block of the background task runs: it calls
\* serverWs.close(1011, reason) with the reason computed from what was thrown
CatchRuns == bg # "failed" /\ bg' = "failed" /\ bgError' # NoThrow

\* C39: every close the bridge issues on the inbound socket carries a reason
\* of at most 123 characters, on every path: the close that ends the socket
\* after a backend close, a backend error or a missing backend WebSocket, and
\* the close the catch block of the background task calls with the message of
\* whatever was thrown.
C39_IssuedReasonsShort ==
    [][/\ (closedBy # "bridge" /\ closedBy' = "bridge")
             => serverClose'.reason.len <= ReasonLimit
       /\ CatchRuns => CatchReason(bgError').len <= ReasonLimit]_vars


\* ---------------------------------------------------------------------
\* What becomes of a buffered message
\* ---------------------------------------------------------------------

\* the background task of a session: each of its awaits settles
Background ==
    \/ \E ok \in BOOLEAN, err \in Throwables : BgEnsure(ok, err)
    \/ \E r \in {"webSocket", "noWebSocket", "throws"}, err \in Throwables :
          BgConnect(r, err)

\* a session whose handler returns and whose background task runs to its end
SpecSession ==
    InitBridge /\ [][NextBridge]_vars /\ WF_vars(Handler) /\ WF_vars(Background)

Buffered(m) == \E i \in 1..Len(pendingToContainer) : pendingToContainer[i] = m
SentToBackend(m) == \E i \in 1..Len(sent) : sent[i] = m

\* C40: every message accepted into the pending buffer is eventually sent to
\* the backend socket, or the inbound socket of the session is eventually
\* closed: no message stays buffered forever while the session is open.
C40_BufferedEventuallySent ==
    \A m \in 1..MaxMsgs :
        Buffered(m) ~> (SentToBackend(m) \/ serverWs = "CLOSED")

=============================================================================
